---- MODULE Spec2Model ----
(***************************************************************************)
(* Model of project/hashtable/threaded_hash_table.py: ThreadSafeHashTable  *)
(* (per-bucket RLocks, one table-wide RLock, insertion-ordered key list,   *)
(* growth by doubling) and the DoublyLinkedList it is built from.          *)
(*                                                                         *)
(* Keys are small naturals; Python's hash(k) of a non-negative int is k.   *)
(* A DoublyLinkedList is the sequence of its nodes <<key, value>> from     *)
(* head to tail.  Every DoublyLinkedList method runs under the list's own  *)
(* _lock, so one method call is one atomic step.  A lock object is named   *)
(* <<g, i>>: the i-th lock of the g-th _bucket_locks array ever built.     *)
(* The load factor is the rational lf[1] / lf[2].                          *)
(***************************************************************************)
EXTENDS Integers, Sequences, FiniteSets, TLC

\* ---------------------------------------------------------------- bounds
MaxKey == 3
MaxVal == 2
MaxOps == 2
MaxSetup == 2
MaxMutOps == 2

\* colliding and non-colliding keys: 0 and 2 share a bucket up to capacity 2
KeyPool == <<0, 2, 1, 4, 3, 5>>
Keys == {KeyPool[i] : i \in 1 .. MaxKey}
Vals == 1 .. MaxVal

Workers == {"t1", "t2"}
Threads == {"t0"} \cup Workers
None == "none"

\* (initial_capacity, load_factor) pairs the tables are constructed with
Configs == { <<2, <<3, 4>>>>, <<1, <<1, 2>>>>, <<1, <<1, 4>>>>, <<4, <<3, 4>>>>, <<1, <<1, 1>>>> }

VARIABLES
    capacity,       \* self._capacity
    load_factor,    \* self._load_factor as <<numerator, denominator>>
    buckets,        \* self._buckets: sequence of chains, chain i+1 is bucket i
    bucket_locks,   \* self._bucket_locks: [gen, len] names the current array
    lock_state,     \* owner and count of every bucket RLock that is held
    global_lock,    \* self._global_lock: <<owner, count>>
    size,           \* self._size
    keys_list,      \* self._keys_list
    gens,           \* number of _bucket_locks arrays built so far
    thr,            \* per thread: position, locals and call stack
    ref,            \* the pairs the completed operations should have left, in order
    phase,          \* "setup": only the main thread t0 runs; "run": the workers run
    dll,            \* a DoublyLinkedList on its own: head, tail, _size and its nodes
    dll_op,         \* the last call made on dll and what it returned
    plain,          \* a NonThreadSafeHashTable built with the same arguments
    plain_res,      \* what the last call on plain returned or raised
    players,        \* the card game: the players at the table (chips, bet, hand)
    dealer,         \* the dealer's hand
    deck,           \* Deck.cards: the last element is dealt next
    game_op         \* the last call made on the game's objects and its outcome

\* the objects of the other classes of the repository, which no operation of
\* ThreadSafeHashTable touches
lists == <<dll, dll_op>>

plains == <<plain, plain_res>>

games == <<players, dealer, deck, game_op>>

others == <<lists, plains, games>>

hashtable == <<capacity, load_factor, buckets, bucket_locks, lock_state, global_lock,
               size, keys_list, gens, thr, ref, phase>>

vars == <<hashtable, others>>

table == <<capacity, buckets, bucket_locks, size, keys_list, gens>>

\* ------------------------------------------------------ DoublyLinkedList
EmptyList == <<>>

ListAppend(l, k, v) == Append(l, <<k, v>>)

\* index of the first node with this key, 0 when there is none
ListFind(l, k) ==
    IF \E i \in 1 .. Len(l) : l[i][1] = k
    THEN CHOOSE i \in 1 .. Len(l) : l[i][1] = k /\ \A j \in 1 .. (i - 1) : l[j][1] # k
    ELSE 0

ListRemove_Keep(l, i) == l

ListRemove_Truncate(l, i) == SubSeq(l, 1, i - 1)

ListRemove(l, i) == [j \in 1 .. (Len(l) - 1) |-> IF j < i THEN l[j] ELSE l[j + 1]]

ListKeys(l) == [i \in 1 .. Len(l) |-> l[i][1]]

ListValues(l) == [i \in 1 .. Len(l) |-> l[i][2]]

ListReversed(l) == [i \in 1 .. Len(l) |-> l[Len(l) + 1 - i][1]]

\* --------------------------------------------------- ThreadSafeHashTable
Hash(k, cap) == k % cap

NewBuckets(n) == [i \in 1 .. n |-> EmptyList]

NeedsResize_AtThreshold(sz, cap, lf) == sz * lf[2] >= cap * lf[1]

NeedsResize(sz, cap, lf) == sz * lf[2] > cap * lf[1]

ValidConfig_Strict(cap, lf) == cap > 0 /\ 0 < lf[1] /\ lf[1] < lf[2]

\* __init__ lines 98-101; the load factor lf[1] / lf[2] has lf[2] > 0
ValidConfig(cap, lf) == cap > 0 /\ 0 < lf[1] /\ lf[1] <= lf[2]

SetValue_Stale(l, i, v) == l

\* existing_node.value = value (line 172)
SetValue(l, i, v) == [l EXCEPT ![i] = <<l[i][1], v>>]

\* the "while current" walks over self._keys_list in __setitem__ / __delitem__
UpdateFirst_MoveToEnd(l, k, v) ==
    IF ListFind(l, k) = 0 THEN l ELSE Append(SelectSeq(l, LAMBDA e : e[1] # k), <<k, v>>)

UpdateFirst(l, k, v) ==
    LET i == ListFind(l, k) IN IF i = 0 THEN l ELSE [l EXCEPT ![i] = <<k, v>>]

RemoveFirst_Forgotten(l, k) == l

RemoveFirst(l, k) ==
    LET i == ListFind(l, k) IN IF i = 0 THEN l ELSE ListRemove(l, i)

FirstBucketWith_SkipFirst(bs, k) ==
    IF \E b \in 2 .. Len(bs) : \E i \in 1 .. Len(bs[b]) : bs[b][i][1] = k
    THEN CHOOSE b \in 2 .. Len(bs) : \E i \in 1 .. Len(bs[b]) : bs[b][i][1] = k
    ELSE 0

\* rehash: "for bucket in old_buckets: node = bucket.find(key)"; 0 when no bucket has it
FirstBucketWith(bs, k) ==
    IF \E b \in 1 .. Len(bs) : ListFind(bs[b], k) # 0
    THEN CHOOSE b \in 1 .. Len(bs) :
            ListFind(bs[b], k) # 0 /\ \A c \in 1 .. (b - 1) : ListFind(bs[c], k) = 0
    ELSE 0

\* ----------------------------------------------- NonThreadSafeHashTable
\* __init__ lines 309-314 (no validation of the arguments)
PlainNew(cap, lf) ==
    [capacity |-> cap, load_factor |-> lf, buckets |-> NewBuckets(cap), size |-> 0,
     keys_list |-> EmptyList]

RECURSIVE PlainSet(_, _, _)
RECURSIVE PlainRehash(_, _, _, _)

\* _resize lines 319-332: old_keys[i..] are still to be set again
PlainRehash(p, old_buckets, old_keys, i) ==
    IF i > Len(old_keys) THEN p
    ELSE LET key == old_keys[i]
             b == FirstBucketWith(old_buckets, key)
         IN  PlainRehash(IF b = 0 THEN p
                         ELSE PlainSet(p, key, old_buckets[b][ListFind(old_buckets[b], key)][2]),
                         old_buckets, old_keys, i + 1)

PlainResize(p, new_capacity) ==
    PlainRehash([p EXCEPT !.capacity = new_capacity, !.buckets = NewBuckets(new_capacity),
                          !.size = 0, !.keys_list = EmptyList],
                p.buckets, ListKeys(p.keys_list), 1)

PlainCheckResize_Never(p) == p

\* _check_resize lines 334-336
PlainCheckResize(p) ==
    IF p.size * p.load_factor[2] > p.capacity * p.load_factor[1]
    THEN PlainResize(p, p.capacity * 2) ELSE p

\* __setitem__ lines 338-355
PlainSet(p, k, v) ==
    LET idx == Hash(k, p.capacity)
        chain == p.buckets[idx + 1]
        i == ListFind(chain, k)
    IN  IF i # 0
        THEN [p EXCEPT !.buckets[idx + 1] = SetValue(chain, i, v),
                       !.keys_list = UpdateFirst(@, k, v)]
        ELSE PlainCheckResize([p EXCEPT !.buckets[idx + 1] = ListAppend(chain, k, v),
                                        !.keys_list = ListAppend(@, k, v),
                                        !.size = @ + 1])

\* __delitem__ lines 366-382, when the key is in its chain
PlainDel(p, k) ==
    LET idx == Hash(k, p.capacity)
        chain == p.buckets[idx + 1]
    IN  [p EXCEPT !.buckets[idx + 1] = ListRemove(chain, ListFind(chain, k)),
                  !.keys_list = RemoveFirst(@, k),
                  !.size = @ - 1]

\* the node bucket.find(key) returns (lines 358-361, 367-370, 385-387); 0 is None
PlainFind(p, k) == ListFind(p.buckets[Hash(k, p.capacity) + 1], k)

\* the table after the call and what the call returns or raises; get is
\* Mapping.get, which returns the default when __getitem__ raises KeyError
PlainCall(p, o, k, v) ==
    LET chain == p.buckets[Hash(k, p.capacity) + 1]
        i == PlainFind(p, k)
    IN  CASE o = "set" -> <<PlainSet(p, k, v), [kind |-> "ok", ret |-> 0]>>
          [] o \in {"get", "getitem"} ->
                <<p, IF i # 0 THEN [kind |-> "value", ret |-> chain[i][2]]
                     ELSE IF o = "get" THEN [kind |-> "default", ret |-> 0]
                     ELSE [kind |-> "KeyError", ret |-> 0]>>
          [] o = "del" -> IF i # 0 THEN <<PlainDel(p, k), [kind |-> "ok", ret |-> 0]>>
                          ELSE <<p, [kind |-> "KeyError", ret |-> 0]>>
          [] o = "in" -> <<p, [kind |-> "bool", ret |-> (i # 0)]>>
          [] o = "len" -> <<p, [kind |-> "len", ret |-> p.size]>>
          [] o = "keys" -> <<p, [kind |-> "keys", ret |-> ListKeys(p.keys_list)]>>

\* ----------------------------------------------------------------- RLock
LockOwner(l) == IF l \in DOMAIN lock_state THEN lock_state[l][1] ELSE None

CanAcquire(t, l) == LockOwner(l) \in {None, t}

Acquired(ls, t, l) ==
    IF l \in DOMAIN ls THEN [ls EXCEPT ![l] = <<t, ls[l][2] + 1>>] ELSE ls @@ (l :> <<t, 1>>)

\* release by a thread that does not own the lock raises RuntimeError and changes nothing
Released(ls, t, l) ==
    IF l \in DOMAIN ls /\ ls[l][1] = t
    THEN IF ls[l][2] > 1 THEN [ls EXCEPT ![l] = <<t, ls[l][2] - 1>>]
         ELSE IF DOMAIN ls = {l} THEN <<>>
         ELSE [x \in DOMAIN ls \ {l} |-> ls[x]]
    ELSE ls

RECURSIVE ReleasedAll(_, _, _, _)
ReleasedAll(ls, t, g, n) ==
    IF n = 0 THEN ls ELSE ReleasedAll(Released(ls, t, <<g, n - 1>>), t, g, n - 1)

GCanAcquire(t) == global_lock[1] \in {None, t}

GAcquired(t) == <<t, global_lock[2] + 1>>

GReleased == IF global_lock[2] > 1 THEN <<global_lock[1], global_lock[2] - 1>> ELSE <<None, 0>>

Min(a, b) == IF a < b THEN a ELSE b

\* ------------------------------------------------------- DoublyLinkedList
\* Nodes are named by the order of their creation; 0 is None. A removed node stays
\* in nodes (nothing clears its prev and next) but is no longer reachable.
NoNode == 0

\* DoublyLinkedList.__init__ lines 23-27
EmptyDll == [head |-> NoNode, tail |-> NoNode, size |-> 0, nodes |-> <<>>]

NoCall == [kind |-> "none", key |-> 0, node |-> NoNode, res |-> NoNode]

ListsInit ==
    /\ dll = EmptyDll
    /\ dll_op = NoCall

\* positive: every place_bet so far was called with a positive amount
\* card: the card a deal returned
NoGameCall == [kind |-> "none", who |-> 0, amount |-> 0, ret |-> FALSE,
               before |-> <<>>, winners |-> <<>>, len |-> 0, positive |-> TRUE,
               card |-> [suit |-> "none", rank |-> 0]]

GamesInit ==
    /\ players = <<>>
    /\ dealer = [hand |-> <<>>]
    /\ deck = <<>>
    /\ game_op = NoGameCall

OthersInit ==
    /\ ListsInit
    /\ plain_res = [kind |-> None, ret |-> 0]
    /\ GamesInit

\* ------------------------------------------------------------ thread state
NoLock == <<0, 0>>

\* fresh: the operation has assigned a new list to self._buckets (lines 135, 298)
IdleThread ==
    [pc |-> "idle", op |-> None, key |-> 0, val |-> 0, n |-> 0,
     res |-> None, rv |-> 0, pv |-> 0, pgrew |-> FALSE, fresh |-> FALSE,
     k |-> 0, v |-> 0, idx |-> 0, lock |-> NoLock, existing |-> FALSE, a |-> 0,
     exc |-> None, stack |-> <<>>, snap |-> <<>>]

TypeOK ==
    /\ capacity \in Int
    /\ phase \in {"new", "failed"} \/ capacity > 0
    /\ size \in Int
    /\ phase \in {"new", "failed", "setup", "run"}
    /\ \A t \in Threads : thr[t].pc \in
          {"idle", "hash", "lock", "acq", "glock", "check",
           "rs_glock", "rs_acq", "rs_cap", "rs_swap", "rs_loop", "rs_fin",
           "len", "keys", "clr_glock", "clr_acq", "clr_body", "iter", "it_next"}

TableInit(cfgs) ==
    /\ \E c \in cfgs :
          /\ ValidConfig(c[1], c[2])
          /\ capacity = c[1]
          /\ load_factor = c[2]
          /\ buckets = NewBuckets(c[1])
          /\ bucket_locks = [gen |-> 0, len |-> c[1]]
          /\ plain = PlainNew(c[1], c[2])
    /\ lock_state = <<>>
    /\ global_lock = <<None, 0>>
    /\ size = 0
    /\ keys_list = EmptyList
    /\ gens = 1
    /\ thr = [t \in Threads |-> IdleThread]
    /\ ref = <<>>
    /\ phase = "setup"

InitWith(cfgs) == TableInit(cfgs) /\ OthersInit

\* the arguments of a constructor call that has not run yet: capacity and
\* load_factor hold initial_capacity and load_factor as passed
ArgCapacities == {0 - 1, 0, 1, 2}

ArgLoadFactors == { <<0 - 1, 2>>, <<0, 1>>, <<1, 2>>, <<1, 1>>, <<3, 2>> }

InitArgs ==
    /\ OthersInit
    /\ capacity \in ArgCapacities
    /\ load_factor \in ArgLoadFactors
    /\ plain = PlainNew(capacity, load_factor)
    /\ buckets = <<>>
    /\ bucket_locks = [gen |-> 0, len |-> 0]
    /\ lock_state = <<>>
    /\ global_lock = <<None, 0>>
    /\ size = 0
    /\ keys_list = EmptyList
    /\ gens = 0
    /\ thr = [t \in Threads |-> IdleThread]
    /\ ref = <<>>
    /\ phase = "new"

\* __init__ lines 97-109: ValueError leaves no table behind
Construct ==
    /\ phase = "new"
    /\ IF ValidConfig(capacity, load_factor)
       THEN /\ buckets' = NewBuckets(capacity)
            /\ bucket_locks' = [gen |-> 0, len |-> capacity]
            /\ gens' = 1
            /\ phase' = "setup"
       ELSE /\ phase' = "failed"
            /\ UNCHANGED <<buckets, bucket_locks, gens>>
    /\ UNCHANGED <<capacity, load_factor, others, lock_state, global_lock, size, keys_list, thr, ref>>

\* ------------------------------------------------------ call and return
Top(rec) == rec.stack[Len(rec.stack)]

Pop(rec) == [rec EXCEPT !.stack = SubSeq(@, 1, Len(@) - 1)]

SetTop(rec, f) == [rec EXCEPT !.stack[Len(rec.stack)] = f]

\* what a completed operation should have left of the pairs r: a set of a new key
\* appends it, a set of a present key replaces its value in place, a del removes it
RefHas(r, key) == \E i \in 1 .. Len(r) : r[i][1] = key

RefAfter(r, o, kind, key, val) ==
    CASE o = "set" /\ kind = "ok" ->
            IF RefHas(r, key)
            THEN [i \in 1 .. Len(r) |-> IF r[i][1] = key THEN <<key, val>> ELSE r[i]]
            ELSE Append(r, <<key, val>>)
      [] o = "del" /\ kind = "ok" -> SelectSeq(r, LAMBDA e : e[1] # key)
      [] o = "clear" /\ kind = "ok" -> <<>>
      [] OTHER -> r

\* the locals of a call that has returned are dead
Cleared(rec) ==
    [rec EXCEPT !.k = 0, !.v = 0, !.idx = 0, !.lock = NoLock, !.existing = FALSE, !.a = 0]

\* the public operation of thread t returns (or raises) to its caller
Finish(t, rec, kind, rv) ==
    /\ thr' = [thr EXCEPT ![t] =
                 [Cleared(rec) EXCEPT !.pc = "idle", !.exc = None,
                                      !.n = IF t \in Workers THEN rec.n + 1 ELSE 0,
                                      !.res = kind, !.rv = rv,
                                      !.fresh = (t = "t0" /\ rec.fresh)]]
    /\ ref' = RefAfter(ref, rec.op, kind, rec.key, rec.val)

\* __setitem__ / _check_resize / _resize return: to the rehash loop that called
\* "self[key] = node.value" (line 147), or out of the public operation
Return(t, rec) ==
    IF rec.stack = <<>>
    THEN Finish(t, rec, "ok", 0)
    ELSE thr' = [thr EXCEPT ![t] = [Cleared(rec) EXCEPT !.pc = "rs_loop"]] /\ UNCHANGED ref

\* an exception leaves the operation, through the finally of every _resize on the stack
Raise(t, rec, e) ==
    IF rec.stack = <<>>
    THEN Finish(t, rec, e, 0)
    ELSE thr' = [thr EXCEPT ![t] = [Cleared(rec) EXCEPT !.pc = "rs_fin", !.exc = e]] /\ UNCHANGED ref

Snapshot == [size |-> size, keys_list |-> keys_list, buckets |-> buckets, capacity |-> capacity,
             bucket_locks |-> bucket_locks]

FirstPc(o) ==
    CASE o \in {"set", "get", "getitem", "del", "in"} -> "hash"
      [] o = "len" -> "len"
      [] o = "keys" -> "keys"
      [] o \in {"values", "items", "reversed"} -> "iter"
      [] o = "clear" -> "clr_glock"

\* ------------------------------------------------------------- operations
\* thread t calls a public operation; the main thread t0 runs alone before the
\* workers are started, and records the table it saw at the call
StartCall(t, o, key, val) ==
    /\ thr[t].pc = "idle"
    /\ IF t = "t0" THEN phase = "setup" ELSE phase = "run"
    /\ thr' = [thr EXCEPT ![t] =
                 [@ EXCEPT !.pc = FirstPc(o), !.op = o, !.key = key, !.val = val,
                           !.k = key, !.v = val,
                           !.res = None, !.rv = 0, !.fresh = FALSE,
                           !.pv = IF t = "t0" /\ o \in {"get", "getitem"}
                                     /\ thr[t].op = "set" /\ thr[t].key = key
                                  THEN thr[t].val ELSE 0,
                           !.pgrew = t = "t0" /\ o \in {"get", "getitem"}
                                     /\ thr[t].op = "set" /\ thr[t].key = key
                                     /\ capacity > thr[t].snap.capacity,
                           !.snap = IF t = "t0" THEN Snapshot ELSE <<>>]]
    /\ UNCHANGED <<capacity, load_factor, buckets, bucket_locks, lock_state, global_lock,
                   size, keys_list, gens, ref, phase>>

StartOp(t, o, key, val) == StartCall(t, o, key, val) /\ UNCHANGED others

\* the same call is made on the plain table, which runs it at once
BothStart(o, key, val) ==
    /\ StartCall("t0", o, key, val)
    /\ LET r == PlainCall(plain, o, key, val)
       IN  plain' = r[1] /\ plain_res' = r[2]
    /\ UNCHANGED <<lists, games>>

\* the main thread starts the workers
Spawn ==
    /\ phase = "setup"
    /\ thr["t0"].pc = "idle"
    /\ phase' = "run"
    /\ thr' = [thr EXCEPT !["t0"].snap = Snapshot, !["t0"].fresh = FALSE]
    /\ UNCHANGED <<capacity, load_factor, others, buckets, bucket_locks, lock_state, global_lock,
                   size, keys_list, gens, ref>>

\* bucket_index = self._hash(key)                    (lines 164, 193, 212, 235)
HashStep(t) ==
    /\ thr[t].pc = "hash"
    /\ thr' = [thr EXCEPT ![t] = [@ EXCEPT !.idx = Hash(thr[t].k, capacity), !.pc = "lock"]]
    /\ UNCHANGED <<capacity, load_factor, others, buckets, bucket_locks, lock_state, global_lock,
                   size, keys_list, gens, ref, phase>>

\* bucket_lock = self._bucket_locks[bucket_index]    (lines 165, 194, 213, 236)
ReadLock(t) ==
    /\ thr[t].pc = "lock"
    /\ IF thr[t].idx < bucket_locks.len
       THEN /\ thr' = [thr EXCEPT ![t] =
                         [@ EXCEPT !.lock = <<bucket_locks.gen, thr[t].idx>>, !.pc = "acq"]]
            /\ UNCHANGED ref
       ELSE Raise(t, thr[t], "IndexError")
    /\ UNCHANGED <<capacity, load_factor, others, buckets, bucket_locks, lock_state, global_lock,
                   size, keys_list, gens, phase>>

\* "with bucket_lock:" (lines 167, 196, 215, 238) blocks until the lock is free or
\* already owned by the caller; the first statement under the lock,
\* bucket = self._buckets[bucket_index], and the find that follows run in the same
\* step as the acquisition (IndexInBounds: the index is within the array then)

FindGet_UnderGlobal(t) ==
    LET rec == thr[t] IN
    /\ rec.pc = "acq" /\ CanAcquire(t, rec.lock) /\ rec.op \in {"get", "getitem"}
    /\ global_lock[1] \in {None, t}
    /\ rec.idx < Len(buckets)
    /\ LET chain == buckets[rec.idx + 1]
           i == ListFind(chain, rec.k)
       IN  IF i # 0 THEN Finish(t, rec, "value", chain[i][2])
           ELSE IF rec.op = "get" THEN Finish(t, rec, "default", 0)
           ELSE Finish(t, rec, "KeyError", 0)
    /\ lock_state' = Released(Acquired(lock_state, t, rec.lock), t, rec.lock)
    /\ UNCHANGED <<capacity, load_factor, others, buckets, bucket_locks, global_lock,
                   size, keys_list, gens, phase>>

FindGet_Uncaught(t) ==
    LET rec == thr[t] IN
    /\ rec.pc = "acq" /\ CanAcquire(t, rec.lock) /\ rec.op \in {"get", "getitem"}
    /\ rec.idx < Len(buckets)
    /\ LET chain == buckets[rec.idx + 1]
           i == ListFind(chain, rec.k)
       IN  IF i # 0 THEN Finish(t, rec, "value", chain[i][2])
           ELSE Finish(t, rec, "KeyError", 0)
    /\ lock_state' = Released(Acquired(lock_state, t, rec.lock), t, rec.lock)
    /\ UNCHANGED <<capacity, load_factor, others, buckets, bucket_locks, global_lock,
                   size, keys_list, gens, phase>>

\* __getitem__ lines 196-201; get() turns KeyError into the default (lines 203-208)
FindGet(t) ==
    LET rec == thr[t] IN
    /\ rec.pc = "acq" /\ CanAcquire(t, rec.lock) /\ rec.op \in {"get", "getitem"}
    /\ rec.idx < Len(buckets)
    /\ LET chain == buckets[rec.idx + 1]
           i == ListFind(chain, rec.k)
       IN  IF i # 0 THEN Finish(t, rec, "value", chain[i][2])
           ELSE IF rec.op = "get" THEN Finish(t, rec, "default", 0)
           ELSE Finish(t, rec, "KeyError", 0)
    /\ lock_state' = Released(Acquired(lock_state, t, rec.lock), t, rec.lock)
    /\ UNCHANGED <<capacity, load_factor, others, buckets, bucket_locks, global_lock,
                   size, keys_list, gens, phase>>

\* __contains__ lines 238-240
FindContains(t) ==
    LET rec == thr[t] IN
    /\ rec.pc = "acq" /\ CanAcquire(t, rec.lock) /\ rec.op = "in"
    /\ rec.idx < Len(buckets)
    /\ Finish(t, rec, "bool", ListFind(buckets[rec.idx + 1], rec.k) # 0)
    /\ lock_state' = Released(Acquired(lock_state, t, rec.lock), t, rec.lock)
    /\ UNCHANGED <<capacity, load_factor, others, buckets, bucket_locks, global_lock,
                   size, keys_list, gens, phase>>

FindDel_DropsChain(t) ==
    LET rec == thr[t] IN
    /\ rec.pc = "acq" /\ CanAcquire(t, rec.lock) /\ rec.op = "del"
    /\ rec.idx < Len(buckets)
    /\ LET chain == buckets[rec.idx + 1]
           i == ListFind(chain, rec.k)
       IN  IF i = 0
           THEN /\ Finish(t, rec, "KeyError", 0)
                /\ lock_state' = Released(Acquired(lock_state, t, rec.lock), t, rec.lock)
                /\ UNCHANGED buckets
           ELSE /\ buckets' = [buckets EXCEPT ![rec.idx + 1] = EmptyList]
                /\ lock_state' = Acquired(lock_state, t, rec.lock)
                /\ thr' = [thr EXCEPT ![t].pc = "glock"]
                /\ UNCHANGED ref
    /\ UNCHANGED <<capacity, load_factor, others, bucket_locks, global_lock,
                   size, keys_list, gens, phase>>

\* __delitem__ lines 216-221
FindDel(t) ==
    LET rec == thr[t] IN
    /\ rec.pc = "acq" /\ CanAcquire(t, rec.lock) /\ rec.op = "del"
    /\ rec.idx < Len(buckets)
    /\ LET chain == buckets[rec.idx + 1]
           i == ListFind(chain, rec.k)
       IN  IF i = 0
           THEN /\ Finish(t, rec, "KeyError", 0)
                /\ lock_state' = Released(Acquired(lock_state, t, rec.lock), t, rec.lock)
                /\ UNCHANGED buckets
           ELSE /\ buckets' = [buckets EXCEPT ![rec.idx + 1] = ListRemove(chain, i)]
                /\ lock_state' = Acquired(lock_state, t, rec.lock)
                /\ thr' = [thr EXCEPT ![t].pc = "glock"]
                /\ UNCHANGED ref
    /\ UNCHANGED <<capacity, load_factor, others, bucket_locks, global_lock,
                   size, keys_list, gens, phase>>

DelPublish_NoCount(t) ==
    LET rec == thr[t] IN
    /\ rec.pc = "glock" /\ rec.op = "del"
    /\ GCanAcquire(t)
    /\ keys_list' = RemoveFirst(keys_list, rec.k)
    /\ lock_state' = Released(lock_state, t, rec.lock)
    /\ Finish(t, rec, "ok", 0)
    /\ UNCHANGED <<capacity, load_factor, others, buckets, bucket_locks, global_lock, gens, phase, size>>

\* __delitem__ lines 223-231, then both with blocks are left
DelPublish(t) ==
    LET rec == thr[t] IN
    /\ rec.pc = "glock" /\ rec.op = "del"
    /\ GCanAcquire(t)
    /\ keys_list' = RemoveFirst(keys_list, rec.k)
    /\ size' = size - 1
    /\ lock_state' = Released(lock_state, t, rec.lock)
    /\ Finish(t, rec, "ok", 0)
    /\ UNCHANGED <<capacity, load_factor, others, buckets, bucket_locks, global_lock, gens, phase>>

FindSet_Relinks(t) ==
    LET rec == thr[t] IN
    /\ rec.pc = "acq" /\ CanAcquire(t, rec.lock) /\ rec.op = "set"
    /\ rec.idx < Len(buckets)
    /\ LET chain == buckets[rec.idx + 1]
           i == ListFind(chain, rec.k)
       IN  /\ buckets' = [buckets EXCEPT ![rec.idx + 1] =
                            IF i # 0 THEN ListAppend(ListRemove(chain, i), rec.k, rec.v)
                            ELSE ListAppend(chain, rec.k, rec.v)]
           /\ thr' = [thr EXCEPT ![t] = [rec EXCEPT !.existing = (i # 0), !.pc = "glock"]]
    /\ lock_state' = Acquired(lock_state, t, rec.lock)
    /\ UNCHANGED <<capacity, load_factor, others, bucket_locks, global_lock,
                   size, keys_list, gens, ref, phase>>

\* __setitem__ lines 168-172 and 182
FindSet(t) ==
    LET rec == thr[t] IN
    /\ rec.pc = "acq" /\ CanAcquire(t, rec.lock) /\ rec.op = "set"
    /\ rec.idx < Len(buckets)
    /\ LET chain == buckets[rec.idx + 1]
           i == ListFind(chain, rec.k)
       IN  /\ buckets' = [buckets EXCEPT ![rec.idx + 1] =
                            IF i # 0 THEN SetValue(chain, i, rec.v)
                            ELSE ListAppend(chain, rec.k, rec.v)]
           /\ thr' = [thr EXCEPT ![t] = [rec EXCEPT !.existing = (i # 0), !.pc = "glock"]]
    /\ lock_state' = Acquired(lock_state, t, rec.lock)
    /\ UNCHANGED <<capacity, load_factor, others, bucket_locks, global_lock,
                   size, keys_list, gens, ref, phase>>

\* __setitem__ lines 174-180 (update) or 183-185 (insert), then both with blocks are
\* left; line 188: only an insert goes on to _check_resize
SetPublish(t) ==
    LET rec == thr[t] IN
    /\ rec.pc = "glock" /\ rec.op = "set"
    /\ GCanAcquire(t)
    /\ lock_state' = Released(lock_state, t, rec.lock)
    /\ IF rec.existing
       THEN /\ keys_list' = UpdateFirst(keys_list, rec.k, rec.v)
            /\ UNCHANGED size
            /\ Return(t, rec)
       ELSE /\ keys_list' = ListAppend(keys_list, rec.k, rec.v)
            /\ size' = size + 1
            /\ thr' = [thr EXCEPT ![t].pc = "check"]
            /\ UNCHANGED ref
    /\ UNCHANGED <<capacity, load_factor, others, buckets, bucket_locks, global_lock, gens, phase>>

CheckResize_OnlyOuter(t) ==
    LET rec == thr[t] IN
    /\ rec.pc = "check"
    /\ IF rec.stack = <<>> /\ NeedsResize(size, capacity, load_factor)
       THEN /\ thr' = [thr EXCEPT ![t] =
                         [rec EXCEPT !.pc = "rs_glock",
                                     !.stack = Append(@, [new_capacity |-> capacity * 2,
                                                          old_capacity |-> 0,
                                                          old_buckets |-> <<>>,
                                                          old_keys |-> <<>>,
                                                          i |-> 1])]]
            /\ UNCHANGED ref
       ELSE Return(t, rec)
    /\ UNCHANGED <<capacity, load_factor, others, buckets, bucket_locks, lock_state, global_lock,
                   size, keys_list, gens, phase>>

\* _check_resize lines 159-160: no lock is held
CheckResize(t) ==
    LET rec == thr[t] IN
    /\ rec.pc = "check"
    /\ IF NeedsResize(size, capacity, load_factor)
       THEN /\ thr' = [thr EXCEPT ![t] =
                         [rec EXCEPT !.pc = "rs_glock",
                                     !.stack = Append(@, [new_capacity |-> capacity * 2,
                                                          old_capacity |-> 0,
                                                          old_buckets |-> <<>>,
                                                          old_keys |-> <<>>,
                                                          i |-> 1])]]
            /\ UNCHANGED ref
       ELSE Return(t, rec)
    /\ UNCHANGED <<capacity, load_factor, others, buckets, bucket_locks, lock_state, global_lock,
                   size, keys_list, gens, phase>>

ResizeEnter_NoRecheck(t) ==
    LET rec == thr[t] IN
    /\ rec.pc = "rs_glock"
    /\ GCanAcquire(t)
    /\ global_lock' = GAcquired(t)
    /\ thr' = [thr EXCEPT ![t] = [rec EXCEPT !.pc = "rs_acq", !.a = 0]]
    /\ UNCHANGED <<capacity, load_factor, others, buckets, bucket_locks, lock_state,
                   size, keys_list, gens, ref, phase>>

\* _resize lines 121-124: take the table-wide lock and check again
ResizeEnter(t) ==
    LET rec == thr[t] IN
    /\ rec.pc = "rs_glock"
    /\ GCanAcquire(t)
    /\ IF NeedsResize(size, capacity, load_factor)
       THEN /\ global_lock' = GAcquired(t)
            /\ thr' = [thr EXCEPT ![t] = [rec EXCEPT !.pc = "rs_acq", !.a = 0]]
            /\ UNCHANGED ref
       ELSE /\ UNCHANGED global_lock
            /\ Return(t, Pop(rec))
    /\ UNCHANGED <<capacity, load_factor, others, buckets, bucket_locks, lock_state,
                   size, keys_list, gens, phase>>

\* _resize lines 127-128: one lock.acquire() of the loop over self._bucket_locks
ResizeAcquire(t) ==
    LET rec == thr[t]
        l == <<bucket_locks.gen, rec.a>>
    IN
    /\ rec.pc = "rs_acq"
    /\ CanAcquire(t, l)
    /\ lock_state' = Acquired(lock_state, t, l)
    /\ thr' = [thr EXCEPT ![t] =
                 [rec EXCEPT !.a = rec.a + 1,
                             !.pc = IF rec.a + 1 = bucket_locks.len THEN "rs_cap" ELSE "rs_acq"]]
    /\ UNCHANGED <<capacity, load_factor, others, buckets, bucket_locks, global_lock,
                   size, keys_list, gens, ref, phase>>

\* _resize lines 131-134
ResizeSetCapacity(t) ==
    LET rec == thr[t]
        f == Top(rec)
    IN
    /\ rec.pc = "rs_cap"
    /\ capacity' = f.new_capacity
    /\ thr' = [thr EXCEPT ![t] =
                 [SetTop(rec, [f EXCEPT !.old_buckets = buckets, !.old_capacity = capacity])
                     EXCEPT !.pc = "rs_swap"]]
    /\ UNCHANGED <<load_factor, others, buckets, bucket_locks, lock_state, global_lock,
                   size, keys_list, gens, ref, phase>>

ResizeSwap_Reversed(t) ==
    LET rec == thr[t]
        f == Top(rec)
    IN
    /\ rec.pc = "rs_swap"
    /\ buckets' = NewBuckets(f.new_capacity)
    /\ bucket_locks' = [gen |-> gens, len |-> f.new_capacity]
    /\ gens' = gens + 1
    /\ size' = 0
    /\ keys_list' = EmptyList
    /\ thr' = [thr EXCEPT ![t] =
                 [SetTop(rec, [f EXCEPT !.old_keys = ListReversed(keys_list)])
                     EXCEPT !.pc = "rs_loop", !.fresh = TRUE]]
    /\ UNCHANGED <<capacity, load_factor, others, lock_state, global_lock, ref, phase>>

\* _resize lines 135-140
ResizeSwap(t) ==
    LET rec == thr[t]
        f == Top(rec)
    IN
    /\ rec.pc = "rs_swap"
    /\ buckets' = NewBuckets(f.new_capacity)
    /\ bucket_locks' = [gen |-> gens, len |-> f.new_capacity]
    /\ gens' = gens + 1
    /\ size' = 0
    /\ keys_list' = EmptyList
    /\ thr' = [thr EXCEPT ![t] =
                 [SetTop(rec, [f EXCEPT !.old_keys = ListKeys(keys_list)])
                     EXCEPT !.pc = "rs_loop", !.fresh = TRUE]]
    /\ UNCHANGED <<capacity, load_factor, others, lock_state, global_lock, ref, phase>>

RehashNext_Again(t) ==
    LET rec == thr[t]
        f == Top(rec)
    IN
    /\ rec.pc = "rs_loop"
    /\ IF f.i > Len(f.old_keys)
       THEN thr' = [thr EXCEPT ![t].pc = "rs_fin"]
       ELSE LET key == f.old_keys[f.i]
                b == FirstBucketWith(f.old_buckets, key)
                nrec == SetTop(rec, [f EXCEPT !.i = f.i])
            IN  IF b = 0
                THEN thr' = [thr EXCEPT ![t] = nrec]
                ELSE thr' = [thr EXCEPT ![t] =
                               [nrec EXCEPT !.pc = "hash", !.k = key,
                                   !.v = f.old_buckets[b][ListFind(f.old_buckets[b], key)][2]]]
    /\ UNCHANGED <<capacity, load_factor, others, buckets, bucket_locks, lock_state, global_lock,
                   size, keys_list, gens, ref, phase>>

\* _resize lines 143-148: the next key of old_keys; self[key] = node.value is a call
RehashNext(t) ==
    LET rec == thr[t]
        f == Top(rec)
    IN
    /\ rec.pc = "rs_loop"
    /\ IF f.i > Len(f.old_keys)
       THEN thr' = [thr EXCEPT ![t].pc = "rs_fin"]
       ELSE LET key == f.old_keys[f.i]
                b == FirstBucketWith(f.old_buckets, key)
                nrec == SetTop(rec, [f EXCEPT !.i = f.i + 1])
            IN  IF b = 0
                THEN thr' = [thr EXCEPT ![t] = nrec]
                ELSE thr' = [thr EXCEPT ![t] =
                               [nrec EXCEPT !.pc = "hash", !.k = key,
                                   !.v = f.old_buckets[b][ListFind(f.old_buckets[b], key)][2]]]
    /\ UNCHANGED <<capacity, load_factor, others, buckets, bucket_locks, lock_state, global_lock,
                   size, keys_list, gens, ref, phase>>

\* _resize lines 149-155, then the table-wide lock is released (end of line 121's with)
ResizeFinally(t) ==
    LET rec == thr[t]
        f == Top(rec)
    IN
    /\ rec.pc = "rs_fin"
    /\ lock_state' = ReleasedAll(lock_state, t, bucket_locks.gen,
                                 Min(f.old_capacity, bucket_locks.len))
    /\ global_lock' = GReleased
    /\ IF rec.exc # None THEN Raise(t, Pop(rec), rec.exc) ELSE Return(t, Pop(rec))
    /\ UNCHANGED <<capacity, load_factor, others, buckets, bucket_locks,
                   size, keys_list, gens, phase>>

\* __len__ lines 260-261
LenOp(t) ==
    /\ thr[t].pc = "len"
    /\ GCanAcquire(t)
    /\ Finish(t, thr[t], "len", size)
    /\ UNCHANGED <<capacity, load_factor, others, buckets, bucket_locks, lock_state, global_lock,
                   size, keys_list, gens, phase>>

\* list(table.keys()): __iter__ lines 244-248 run to exhaustion
KeysOp(t) ==
    /\ thr[t].pc = "keys"
    /\ GCanAcquire(t)
    /\ Finish(t, thr[t], "keys", ListKeys(keys_list))
    /\ UNCHANGED <<capacity, load_factor, others, buckets, bucket_locks, lock_state, global_lock,
                   size, keys_list, gens, phase>>

\* what an iterator yields for the node <<key, value>>: __iter__ and __reversed__
\* yield current.key, values() current.value, items() the pair
Yielded(o, node) ==
    CASE o = "values" -> node[2]
      [] o = "items" -> node
      [] OTHER -> node[1]

IterEnter_NoLock(t) ==
    LET rec == thr[t] IN
    /\ rec.pc \in {"iter", "keys"}
    /\ thr' = [thr EXCEPT ![t] = [rec EXCEPT !.pc = "it_next", !.a = 0, !.rv = <<>>]]
    /\ UNCHANGED <<capacity, load_factor, others, buckets, bucket_locks, lock_state, global_lock,
                   size, keys_list, gens, ref, phase>>

\* the consumer of keys() / values() / items() / reversed(table) starts the generator:
\* "with self._global_lock" (lines 244, 252, 277, 285); the lock stays held while
\* the generator is suspended at a yield
IterEnter(t) ==
    LET rec == thr[t] IN
    /\ rec.pc \in {"iter", "keys"}
    /\ GCanAcquire(t)
    /\ global_lock' = GAcquired(t)
    /\ thr' = [thr EXCEPT ![t] = [rec EXCEPT !.pc = "it_next", !.a = 0, !.rv = <<>>]]
    /\ UNCHANGED <<capacity, load_factor, others, buckets, bucket_locks, lock_state,
                   size, keys_list, gens, ref, phase>>

IterNext_Unlocked(t) ==
    LET rec == thr[t] IN
    /\ rec.pc = "it_next"
    /\ IF rec.a < Len(keys_list)
       THEN /\ thr' = [thr EXCEPT ![t] =
                         [rec EXCEPT !.a = rec.a + 1,
                             !.rv = Append(rec.rv,
                                      Yielded(rec.op,
                                              keys_list[IF rec.op = "reversed"
                                                        THEN Len(keys_list) - rec.a
                                                        ELSE rec.a + 1]))]]
            /\ global_lock' = GReleased
            /\ UNCHANGED ref
       ELSE /\ global_lock' = GReleased
            /\ Finish(t, rec, rec.op, rec.rv)
    /\ UNCHANGED <<capacity, load_factor, others, buckets, bucket_locks, lock_state,
                   size, keys_list, gens, phase>>

\* one turn of "while current": yield the node after the a nodes already yielded
\* (from the tail for __reversed__), or leave the with block when there is none
IterNext(t) ==
    LET rec == thr[t] IN
    /\ rec.pc = "it_next"
    /\ IF rec.a < Len(keys_list)
       THEN /\ thr' = [thr EXCEPT ![t] =
                         [rec EXCEPT !.a = rec.a + 1,
                             !.rv = Append(rec.rv,
                                      Yielded(rec.op,
                                              keys_list[IF rec.op = "reversed"
                                                        THEN Len(keys_list) - rec.a
                                                        ELSE rec.a + 1]))]]
            /\ UNCHANGED <<global_lock, ref>>
       ELSE /\ global_lock' = GReleased
            /\ Finish(t, rec, rec.op, rec.rv)
    /\ UNCHANGED <<capacity, load_factor, others, buckets, bucket_locks, lock_state,
                   size, keys_list, gens, phase>>

\* clear line 293
ClearEnter(t) ==
    /\ thr[t].pc = "clr_glock"
    /\ GCanAcquire(t)
    /\ global_lock' = GAcquired(t)
    /\ thr' = [thr EXCEPT ![t] = [@ EXCEPT !.pc = "clr_acq", !.a = 0]]
    /\ UNCHANGED <<capacity, load_factor, others, buckets, bucket_locks, lock_state,
                   size, keys_list, gens, ref, phase>>

\* clear lines 294-295: one bucket_lock.acquire() of the loop
ClearAcquire(t) ==
    LET rec == thr[t]
        l == <<bucket_locks.gen, rec.a>>
    IN
    /\ rec.pc = "clr_acq"
    /\ CanAcquire(t, l)
    /\ lock_state' = Acquired(lock_state, t, l)
    /\ thr' = [thr EXCEPT ![t] =
                 [rec EXCEPT !.a = rec.a + 1,
                             !.pc = IF rec.a + 1 = bucket_locks.len THEN "clr_body" ELSE "clr_acq"]]
    /\ UNCHANGED <<capacity, load_factor, others, buckets, bucket_locks, global_lock,
                   size, keys_list, gens, ref, phase>>

ClearBody_KeepsOrder(t) ==
    /\ thr[t].pc = "clr_body"
    /\ buckets' = NewBuckets(capacity)
    /\ size' = 0
    /\ lock_state' = ReleasedAll(lock_state, t, bucket_locks.gen, bucket_locks.len)
    /\ global_lock' = GReleased
    /\ Finish(t, [thr[t] EXCEPT !.fresh = TRUE], "ok", 0)
    /\ UNCHANGED <<capacity, load_factor, others, bucket_locks, gens, phase, keys_list>>

ClearBody_NewLocks(t) ==
    /\ thr[t].pc = "clr_body"
    /\ buckets' = NewBuckets(capacity)
    /\ keys_list' = EmptyList
    /\ size' = 0
    /\ lock_state' = ReleasedAll(lock_state, t, bucket_locks.gen, bucket_locks.len)
    /\ global_lock' = GReleased
    /\ bucket_locks' = [gen |-> gens, len |-> capacity]
    /\ gens' = gens + 1
    /\ Finish(t, [thr[t] EXCEPT !.fresh = TRUE], "ok", 0)
    /\ UNCHANGED <<capacity, load_factor, others, phase>>

\* clear lines 297-303, then the table-wide lock is released
ClearBody(t) ==
    /\ thr[t].pc = "clr_body"
    /\ buckets' = NewBuckets(capacity)
    /\ keys_list' = EmptyList
    /\ size' = 0
    /\ lock_state' = ReleasedAll(lock_state, t, bucket_locks.gen, bucket_locks.len)
    /\ global_lock' = GReleased
    /\ Finish(t, [thr[t] EXCEPT !.fresh = TRUE], "ok", 0)
    /\ UNCHANGED <<capacity, load_factor, others, bucket_locks, gens, phase>>

\* the steps inside __setitem__ (with its _check_resize and _resize)
SetSteps(t) ==
    \/ HashStep(t) \/ ReadLock(t) \/ FindSet(t) \/ SetPublish(t)
    \/ CheckResize(t) \/ ResizeEnter(t) \/ ResizeAcquire(t) \/ ResizeSetCapacity(t)
    \/ ResizeSwap(t) \/ RehashNext(t) \/ ResizeFinally(t)

\* ------------------------------------------------- single-threaded use
\* load factor 1: chains of two nodes exist at rest (keys 0 and 2 at capacity 2)
SeqConfigs == { <<1, <<1, 1>>>> }

InitSeq == InitWith(SeqConfigs)

NextSeq ==
    \/ /\ phase = "setup"
       /\ \/ \E k \in Keys, v \in Vals : StartOp("t0", "set", k, v)
          \/ \E k \in Keys, o \in {"get", "getitem", "del", "in"} : StartOp("t0", o, k, 0)
          \/ \E o \in {"len", "keys", "clear"} : StartOp("t0", o, 0, 0)
    \/ SetSteps("t0")
    \/ FindGet("t0") \/ FindContains("t0") \/ FindDel("t0") \/ DelPublish("t0")
    \/ LenOp("t0") \/ KeysOp("t0")
    \/ ClearEnter("t0") \/ ClearAcquire("t0") \/ ClearBody("t0")

SpecSeq == InitSeq /\ [][NextSeq]_vars

\* ---- one thread only inserts and updates (test_collision_resolution), from every
\* configuration: the table grows across one or more load-factor boundaries
NextGrow ==
    \/ /\ phase = "setup"
       /\ \/ \E k \in Keys, v \in Vals : StartOp("t0", "set", k, v)
          \/ \E o \in {"len", "keys"} : StartOp("t0", o, 0, 0)
    \/ SetSteps("t0")
    \/ LenOp("t0") \/ KeysOp("t0")

SpecGrow == InitWith(Configs) /\ [][NextGrow]_vars

\* ---- one thread sets, deletes and iterates (test_iteration)
OrderConfigs == { <<2, <<3, 4>>>> }

NextOrder ==
    \/ /\ phase = "setup"
       /\ \/ \E k \in Keys, v \in Vals : StartOp("t0", "set", k, v)
          \/ \E k \in Keys : StartOp("t0", "del", k, 0)
          \/ \E o \in {"keys", "values", "items", "reversed"} : StartOp("t0", o, 0, 0)
    \/ SetSteps("t0")
    \/ FindDel("t0") \/ DelPublish("t0")
    \/ IterEnter("t0") \/ IterNext("t0")

SpecOrder == InitWith(OrderConfigs) /\ [][NextOrder]_vars

\* ---- one thread sets, deletes and clears, from every configuration
NextLoad ==
    \/ /\ phase = "setup"
       /\ \/ \E k \in Keys : StartOp("t0", "set", k, 1)
          \/ \E k \in Keys : StartOp("t0", "del", k, 0)
          \/ StartOp("t0", "clear", 0, 0)
    \/ SetSteps("t0")
    \/ FindDel("t0") \/ DelPublish("t0")
    \/ ClearEnter("t0") \/ ClearAcquire("t0") \/ ClearBody("t0")

SpecLoad == InitWith(Configs) /\ [][NextLoad]_vars

\* ---- test_performance_comparison: one thread makes the same calls on a
\* ThreadSafeHashTable and on a NonThreadSafeHashTable built alike
EqConfigs == { <<1, <<1, 4>>>>, <<2, <<3, 4>>>> }

NextEq ==
    \/ /\ phase = "setup"
       /\ \/ \E k \in Keys, v \in {1, MaxVal} : BothStart("set", k, v)
          \/ \E k \in Keys, o \in {"get", "getitem", "del", "in"} : BothStart(o, k, 0)
          \/ \E o \in {"len", "keys"} : BothStart(o, 0, 0)
    \/ SetSteps("t0")
    \/ FindGet("t0") \/ FindContains("t0") \/ FindDel("t0") \/ DelPublish("t0")
    \/ LenOp("t0") \/ KeysOp("t0")

SpecEq == InitWith(EqConfigs) /\ [][NextEq]_vars

\* ---- one thread only sets, from every configuration, and is never suspended
\* for ever inside a call: no other thread exists that it could wait for
NextSet ==
    \/ phase = "setup" /\ \E k \in Keys : StartOp("t0", "set", k, 1)
    \/ SetSteps("t0")

SpecSet == InitWith(Configs) /\ [][NextSet]_vars /\ WF_vars(SetSteps("t0"))

\* ---- a constructor call with any arguments, then one thread inserts and updates
NextNew == Construct \/ NextGrow

SpecNew == InitArgs /\ [][NextNew]_vars


\* ---------------------------------------------------- concurrent use
ConcConfigs == { <<2, <<3, 4>>>>, <<1, <<1, 2>>>> }

\* the main thread inserts up to MaxSetup keys before it starts the workers
SetupInsert ==
    /\ Len(keys_list) < MaxSetup
    /\ \E k \in Keys : StartOp("t0", "set", k, 1)

Blocked(t) ==
    \/ thr[t].pc = "acq" /\ ~CanAcquire(t, thr[t].lock)
    \/ thr[t].pc \in {"rs_acq", "clr_acq"} /\ ~CanAcquire(t, <<bucket_locks.gen, thr[t].a>>)
    \/ thr[t].pc \in {"glock", "rs_glock", "len", "keys", "clr_glock", "iter"} /\ ~GCanAcquire(t)

\* the thread that holds the lock a blocked thread is waiting for
Holder(t) ==
    CASE thr[t].pc = "acq" -> LockOwner(thr[t].lock)
      [] thr[t].pc \in {"rs_acq", "clr_acq"} -> LockOwner(<<bucket_locks.gen, thr[t].a>>)
      [] OTHER -> global_lock[1]

\* every thread of S waits for a lock held by a thread of S, or by a thread that
\* has returned from the operation in which it took the lock
Deadlocked ==
    \E S \in SUBSET Threads :
        /\ S # {}
        /\ \A t \in S : Blocked(t) /\ (Holder(t) \in S \/ thr[Holder(t)].pc = "idle")

Quiescent == phase = "run" /\ \A t \in Threads : thr[t].pc = "idle"

\* workers run set / get / contains / delete, as in test_deadlock_prevention
WorkerOp(t) ==
    /\ thr[t].n < MaxOps
    /\ \/ \E k \in Keys : StartOp(t, "set", k, MaxVal)
       \/ \E k \in Keys, o \in {"get", "del", "in"} : StartOp(t, o, k, 0)

Next ==
    \/ Spawn
    \/ \E t \in Workers : WorkerOp(t)
    \/ \E t \in Threads :
          \/ SetSteps(t)
          \/ FindGet(t) \/ FindContains(t) \/ FindDel(t) \/ DelPublish(t)

Spec == InitWith(ConcConfigs) /\ [][Next]_vars

IndexInBounds ==
    \A t \in Threads :
        (thr[t].pc = "acq" /\ CanAcquire(t, thr[t].lock)) => thr[t].idx < Len(buckets)

\* ---- test_concurrent_inserts_no_data_loss: the workers insert disjoint keys
KeysOf(t) == {KeyPool[i] : i \in {j \in 1 .. MaxKey : (j % 2 = 1) <=> (t = "t1")}}

InsertOp(t) ==
    /\ thr[t].n < MaxOps
    /\ \E k \in KeysOf(t), v \in Vals : ~RefHas(ref, k) /\ StartOp(t, "set", k, v)

NextIns ==
    \/ Spawn
    \/ \E t \in Workers : InsertOp(t)
    \/ \E t \in Workers : SetSteps(t)

SpecIns == InitWith(ConcConfigs) /\ [][NextIns]_vars

\* ---- every worker inserts one key of its own into the empty table, so that both
\* can find the load above the threshold before either has resized
InsertOnce(t) ==
    /\ thr[t].n = 0
    /\ \E k \in KeysOf(t), v \in Vals : StartOp(t, "set", k, v)

NextOnce ==
    \/ Spawn
    \/ \E t \in Workers : InsertOnce(t)
    \/ \E t \in Workers : SetSteps(t)

SpecOnce == InitWith(ConcConfigs) /\ [][NextOnce]_vars

\* ---- both workers set any key, inserting or updating; t1 writes the value 1 and
\* t2 the value MaxVal (write_worker of test_concurrent_reads_writes, on shared keys)
UpsertOp(t) ==
    /\ thr[t].n < MaxOps
    /\ \E k \in Keys : StartOp(t, "set", k, IF t = "t1" THEN 1 ELSE MaxVal)

NextUpsert ==
    \/ Spawn
    \/ \E t \in Workers : UpsertOp(t)
    \/ \E t \in Workers : SetSteps(t)

SpecUpsert == InitWith(ConcConfigs) /\ [][NextUpsert]_vars

\* ---- test_concurrent_reads_writes: t0 populates, then t1 inserts new keys while
\* t2 reads the keys that were there when the workers started
InitialKeys == {thr["t0"].snap.keys_list[i][1] : i \in 1 .. Len(thr["t0"].snap.keys_list)}

WriterOp ==
    /\ phase = "run"
    /\ thr["t1"].n < MaxOps
    /\ \E k \in Keys \ InitialKeys : StartOp("t1", "set", k, MaxVal)

ReaderOp ==
    /\ phase = "run"
    /\ thr["t2"].n < MaxOps
    /\ \E k \in InitialKeys, o \in {"getitem", "in"} : StartOp("t2", o, k, 0)

NextRW ==
    \/ SetupInsert
    \/ Spawn
    \/ WriterOp
    \/ ReaderOp
    \/ \E t \in Threads : SetSteps(t) \/ FindGet(t) \/ FindContains(t)

SpecRW == InitWith(ConcConfigs) /\ [][NextRW]_vars

\* ---- test_iteration_thread_safety: t0 populates, then t2 traverses keys(),
\* values() and items() node by node while t1 inserts new keys
IterateOp ==
    /\ phase = "run"
    /\ thr["t2"].n < MaxOps
    /\ \E o \in {"keys", "values", "items"} : StartOp("t2", o, 0, 0)

NextIter ==
    \/ SetupInsert
    \/ Spawn
    \/ WriterOp
    \/ IterateOp
    \/ \E t \in {"t0", "t1"} : SetSteps(t)
    \/ IterEnter("t2") \/ IterNext("t2")

SpecIter == InitWith(ConcConfigs) /\ [][NextIter]_vars

\* ---- t0 populates, then t2 consumes keys(), values() and items() node by node
\* while t1 inserts, deletes and asks for the length. The scheduler runs every
\* thread that can run, and the consumer goes on until the iterator is exhausted.
\* one call of the mutator meets one iterator
MutatorOp ==
    /\ phase = "run"
    /\ thr["t1"].n = 0
    /\ \/ \E k \in Keys : StartOp("t1", "set", k, MaxVal)
       \/ \E k \in Keys : StartOp("t1", "del", k, 0)
       \/ StartOp("t1", "len", 0, 0)

MutatorSteps == SetSteps("t1") \/ FindDel("t1") \/ DelPublish("t1") \/ LenOp("t1")

ConsumerOp ==
    /\ phase = "run"
    /\ thr["t2"].n = 0
    /\ \E o \in {"keys", "values", "items"} : StartOp("t2", o, 0, 0)

NextHold ==
    \/ SetupInsert
    \/ Spawn
    \/ MutatorOp
    \/ ConsumerOp
    \/ SetSteps("t0")
    \/ MutatorSteps
    \/ IterEnter("t2") \/ IterNext("t2")

\* where a thread is in its call: every step of a thread changes it
Position(t) == <<thr[t].pc, thr[t].a, thr[t].stack>>

SpecHold ==
    InitWith(ConcConfigs) /\ [][NextHold]_vars
        /\ WF_Position("t1")(MutatorSteps) /\ WF_Position("t2")(IterNext("t2"))

\* ---- test_stress_high_concurrency / stress_worker: t0 populates, then every worker
\* mixes get(key, None), inserts of keys of its own and the guarded delete
\* "if key in hash_table: del hash_table[key]" on the populated keys
DeletePending(t) ==
    /\ thr[t].pc = "idle" /\ thr[t].op = "in" /\ thr[t].res = "bool" /\ thr[t].rv = TRUE

StressOp(t) ==
    /\ phase = "run"
    /\ thr[t].n < MaxOps
    /\ ~DeletePending(t)
    /\ \/ \E k \in Keys : StartOp(t, "get", k, 0)
       \/ \E k \in KeysOf(t) \ InitialKeys : ~RefHas(ref, k) /\ StartOp(t, "set", k, MaxVal)
       \/ \E k \in InitialKeys : StartOp(t, "in", k, 0)

\* the body of the if: the key the test has just found in the table
GuardedDelete(t) ==
    /\ DeletePending(t)
    /\ StartOp(t, "del", thr[t].key, 0)

NextStress ==
    \/ SetupInsert
    \/ Spawn
    \/ \E t \in Workers : StressOp(t) \/ GuardedDelete(t)
    \/ \E t \in Threads :
          \/ SetSteps(t)
          \/ FindGet(t) \/ FindContains(t) \/ FindDel(t) \/ DelPublish(t)

SpecStress == InitWith(ConcConfigs) /\ [][NextStress]_vars

\* ---- two threads delete a key that t0 inserted
DeleteOp(t) ==
    /\ phase = "run"
    /\ thr[t].n = 0
    /\ \E k \in InitialKeys : StartOp(t, "del", k, 0)

NextDel ==
    \/ SetupInsert
    \/ Spawn
    \/ \E t \in Workers : DeleteOp(t)
    \/ \E t \in Threads : SetSteps(t) \/ FindDel(t) \/ DelPublish(t)

SpecDel == InitWith(ConcConfigs) /\ [][NextDel]_vars

\* ---- test_concurrent_deletes: t0 populates, then every worker deletes keys of its
\* own range that are in the table
MaxPopulate == 3

DelConfigs == { <<2, <<1, 1>>>>, <<1, <<1, 2>>>> }

Populate ==
    /\ Len(keys_list) < MaxPopulate
    /\ \E k \in Keys : StartOp("t0", "set", k, 1)

DisjointDeleteOp(t) ==
    /\ thr[t].n < MaxOps
    /\ \E k \in KeysOf(t) : RefHas(ref, k) /\ StartOp(t, "del", k, 0)

NextDisj ==
    \/ Populate
    \/ Spawn
    \/ \E t \in Workers : DisjointDeleteOp(t)
    \/ SetSteps("t0")
    \/ \E t \in Workers : HashStep(t) \/ ReadLock(t) \/ FindDel(t) \/ DelPublish(t)

SpecDisj == InitWith(DelConfigs) /\ [][NextDisj]_vars

\* ---- the workers mutate an empty table of any configuration: set, delete and
\* clear, MaxMutOps calls between them
\* operations the workers have started so far
Started ==
    LET c(t) == thr[t].n + (IF thr[t].pc = "idle" THEN 0 ELSE 1)
    IN  c("t1") + c("t2")

MutateOp(t) ==
    /\ Started < MaxMutOps
    /\ \/ \E k \in Keys : StartOp(t, "set", k, MaxVal)
       \/ \E k \in Keys : StartOp(t, "del", k, 0)
       \/ StartOp(t, "clear", 0, 0)

NextMut ==
    \/ Spawn
    \/ \E t \in Workers : MutateOp(t)
    \/ \E t \in Threads :
          \/ SetSteps(t) \/ FindDel(t) \/ DelPublish(t)
          \/ ClearEnter(t) \/ ClearAcquire(t) \/ ClearBody(t)

SpecMut == InitWith(Configs) /\ [][NextMut]_vars

\* ---- t1 mutates (set, delete, clear) while t2 only reads (get, table[k], in);
\* MaxMutOps calls between them
ReadOp(t) ==
    /\ Started < MaxMutOps
    /\ \E k \in Keys, o \in {"get", "getitem", "in"} : StartOp(t, o, k, 0)

NextRead ==
    \/ Spawn
    \/ MutateOp("t1")
    \/ ReadOp("t2")
    \/ SetSteps("t1") \/ FindDel("t1") \/ DelPublish("t1")
    \/ ClearEnter("t1") \/ ClearAcquire("t1") \/ ClearBody("t1")
    \/ HashStep("t2") \/ ReadLock("t2") \/ FindGet("t2") \/ FindContains("t2")

SpecRead == InitWith(Configs) /\ [][NextRead]_vars

\* ---- DoublyLinkedList used on its own: any sequence of append, find and remove
MaxNodes == 3

DllKeys == {0, 1}

DllVals == {1, 2}

\* append lines 34-47
DllAppend(d, k, v) ==
    LET n == Len(d.nodes) + 1
        new_node == [key |-> k, value |-> v, next |-> NoNode,
                     prev |-> IF d.head = NoNode THEN NoNode ELSE d.tail]
        linked == IF d.head = NoNode THEN d.nodes
                  ELSE [d.nodes EXCEPT ![d.tail].next = n]
    IN  [head |-> IF d.head = NoNode THEN n ELSE d.head,
         tail |-> n,
         size |-> d.size + 1,
         nodes |-> Append(linked, new_node)]

DllRemove_KeepsTail(d, n) ==
    LET node == d.nodes[n]
        a == IF node.prev # NoNode THEN [d.nodes EXCEPT ![node.prev].next = node.next]
             ELSE d.nodes
    IN  [head |-> IF node.prev # NoNode THEN d.head ELSE node.next,
         tail |-> d.tail,
         size |-> d.size - 1,
         nodes |-> a]

\* remove lines 59-72
DllRemove(d, n) ==
    LET node == d.nodes[n]
        a == IF node.prev # NoNode THEN [d.nodes EXCEPT ![node.prev].next = node.next]
             ELSE d.nodes
        b == IF node.next # NoNode THEN [a EXCEPT ![node.next].prev = node.prev]
             ELSE a
    IN  [head |-> IF node.prev # NoNode THEN d.head ELSE node.next,
         tail |-> IF node.next # NoNode THEN d.tail ELSE node.prev,
         size |-> d.size - 1,
         nodes |-> b]

\* the nodes visited from cur along next (__iter__ lines 76-80) or along prev
\* (reverse_iter lines 84-88); a walk that does not end is cut after fuel nodes
RECURSIVE DllWalk(_, _, _, _)
DllWalk(d, cur, dir, fuel) ==
    IF cur = NoNode \/ fuel = 0 THEN <<>>
    ELSE <<cur>> \o DllWalk(d, IF dir = "next" THEN d.nodes[cur].next ELSE d.nodes[cur].prev,
                            dir, fuel - 1)

DllForward(d) == DllWalk(d, d.head, "next", Len(d.nodes) + 1)

DllBackward(d) == DllWalk(d, d.tail, "prev", Len(d.nodes) + 1)

\* find lines 49-57
RECURSIVE DllFindFrom(_, _, _, _)
DllFindFrom(d, cur, k, fuel) ==
    IF cur = NoNode \/ fuel = 0 THEN NoNode
    ELSE IF d.nodes[cur].key = k THEN cur
    ELSE DllFindFrom(d, d.nodes[cur].next, k, fuel - 1)

DllFind(d, k) == DllFindFrom(d, d.head, k, Len(d.nodes) + 1)

AppendCall ==
    \E k \in DllKeys, v \in DllVals :
        /\ Len(dll.nodes) < MaxNodes
        /\ dll' = DllAppend(dll, k, v)
        /\ dll_op' = [kind |-> "append", key |-> k, node |-> NoNode,
                      res |-> Len(dll.nodes) + 1]
        /\ UNCHANGED <<hashtable, plains, games>>

\* remove is called with a node that find returned and that is still in the list
RemoveCall ==
    \E i \in 1..Len(DllForward(dll)) :
        LET n == DllForward(dll)[i] IN
        /\ dll' = DllRemove(dll, n)
        /\ dll_op' = [kind |-> "remove", key |-> dll.nodes[n].key, node |-> n, res |-> NoNode]
        /\ UNCHANGED <<hashtable, plains, games>>

FindCall ==
    \E k \in DllKeys :
        /\ dll_op' = [kind |-> "find", key |-> k, node |-> NoNode, res |-> DllFind(dll, k)]
        /\ UNCHANGED <<hashtable, dll, plains, games>>

NextDll == AppendCall \/ RemoveCall \/ FindCall

SpecDll == InitWith(SeqConfigs) /\ [][NextDll]_vars

\* ------------------------------------------------------------ card game
\* ---- a Player on its own: any sequence of place_bet calls (test_players.py)
MaxChips == 4

\* Player.__init__ lines 13-20
NewPlayer(initial_chips) == [chips |-> initial_chips, hand |-> <<>>, bet |-> 0]

PlaceBet_Overdraw(p, amount) ==
    IF amount <= p.chips + 1
    THEN <<[p EXCEPT !.bet = amount, !.chips = @ - amount], TRUE>>
    ELSE <<p, FALSE>>

\* Player.place_bet lines 22-28: the player after the call and what it returns
PlaceBet(p, amount) ==
    IF amount <= p.chips
    THEN <<[p EXCEPT !.bet = amount, !.chips = @ - amount], TRUE>>
    ELSE <<p, FALSE>>

\* the amounts passed: negative, zero, affordable and too large
BetAmounts == (0 - 1) .. (MaxChips + 1)

InitBet ==
    /\ TableInit(SeqConfigs) /\ ListsInit /\ plain_res = [kind |-> None, ret |-> 0]
    /\ \E c \in 0 .. MaxChips : players = <<NewPlayer(c)>>
    /\ dealer = [hand |-> <<>>]
    /\ deck = <<>>
    /\ game_op = NoGameCall

PlaceBetCall ==
    \E amount \in BetAmounts :
        LET r == PlaceBet(players[1], amount) IN
        /\ r[1].chips <= MaxChips
        /\ players' = [players EXCEPT ![1] = r[1]]
        /\ game_op' = [game_op EXCEPT !.kind = "place_bet", !.who = 1, !.amount = amount,
                                      !.ret = r[2], !.before = players,
                                      !.positive = @ /\ amount > 0]
        /\ UNCHANGED <<hashtable, lists, plains, dealer, deck>>

NextBet == PlaceBetCall

SpecBet == InitBet /\ [][NextBet]_vars

\* ---- a Table whose players bet and receive cards, then determine_winners
\* (test_game.py)
MaxHand == 3

\* cards.py lines 25-40: RANKS by position, TWO .. TEN, JACK, QUEEN, KING, ACE
RankValue(r) == IF r <= 9 THEN r + 1 ELSE IF r <= 12 THEN 10 ELSE 11

ACE == 13

TEN == 9

Card(suit, rank) == [suit |-> suit, rank |-> rank]

RECURSIVE SumValues(_)
SumValues(hand) ==
    IF hand = <<>> THEN 0 ELSE RankValue(hand[1].rank) + SumValues(Tail(hand))

RECURSIVE Aces(_)
Aces(hand) ==
    IF hand = <<>> THEN 0 ELSE (IF hand[1].rank = ACE THEN 1 ELSE 0) + Aces(Tail(hand))

\* the while loop of calculate_score, players.py lines 40-42
RECURSIVE Soften(_, _)
Soften(score, aces) ==
    IF score > 21 /\ aces > 0 THEN Soften(score - 10, aces - 1) ELSE score

\* Player.calculate_score lines 34-44
CalculateScore(hand) == Soften(SumValues(hand), Aces(hand))

\* Player.is_busted lines 50-52
IsBusted(hand) == CalculateScore(hand) > 21

\* Player.win_bet lines 89-91
WinBet(p) == [p EXCEPT !.chips = @ + p.bet * 2]

\* Player.push lines 93-95
Push(p) == [p EXCEPT !.chips = @ + p.bet]

Settle_DealerBustFirst(p, dealer_score, dealer_busted) ==
    LET player_score == CalculateScore(p.hand)
        player_busted == IsBusted(p.hand)
    IN  IF dealer_busted THEN <<WinBet(p), TRUE>>
        ELSE IF player_busted THEN <<p, FALSE>>
        ELSE IF player_score > dealer_score THEN <<WinBet(p), TRUE>>
        ELSE IF player_score = dealer_score THEN <<Push(p), FALSE>>
        ELSE <<p, FALSE>>

\* one turn of the loop of determine_winners, game.py lines 152-166: the player
\* after it and whether it was appended to winners
Settle(p, dealer_score, dealer_busted) ==
    LET player_score == CalculateScore(p.hand)
        player_busted == IsBusted(p.hand)
    IN  IF player_busted THEN <<p, FALSE>>
        ELSE IF dealer_busted THEN <<WinBet(p), TRUE>>
        ELSE IF player_score > dealer_score THEN <<WinBet(p), TRUE>>
        ELSE IF player_score = dealer_score THEN <<Push(p), FALSE>>
        ELSE <<p, FALSE>>

\* Table.determine_winners lines 145-168: the players after the call and the
\* winners (positions in active_players) in the order they were appended
DetermineWinners(ps, d) ==
    LET dealer_score == CalculateScore(d.hand)
        dealer_busted == IsBusted(d.hand)
        r == [i \in 1 .. Len(ps) |-> Settle(ps[i], dealer_score, dealer_busted)]
    IN  <<[i \in 1 .. Len(ps) |-> r[i][1]],
          SelectSeq([i \in 1 .. Len(ps) |-> i], LAMBDA i : r[i][2])>>

TablePlayers == 2

\* the cards handed out: a ten and an ace make 20, 21, 12 and a bust
DealtCards == {Card("HEARTS", TEN), Card("SPADES", ACE)}

\* Table.__init__ lines 6-30 with initial_chips
InitTable ==
    /\ TableInit(SeqConfigs) /\ ListsInit /\ plain_res = [kind |-> None, ret |-> 0]
    /\ players = [i \in 1 .. TablePlayers |-> NewPlayer(MaxChips)]
    /\ dealer = [hand |-> <<>>]
    /\ deck = <<>>
    /\ game_op = NoGameCall

\* the betting phase: every player bets at most once, before the cards
TableBet ==
    \E i \in 1 .. Len(players), amount \in {1, MaxChips} :
        LET r == PlaceBet(players[i], amount) IN
        /\ game_op.kind \in {"none", "place_bet"}
        /\ players[i].bet = 0
        /\ players' = [players EXCEPT ![i] = r[1]]
        /\ game_op' = [game_op EXCEPT !.kind = "place_bet", !.who = i, !.amount = amount,
                                      !.ret = r[2], !.before = players]
        /\ UNCHANGED <<hashtable, lists, plains, dealer, deck>>

\* Player.receive_card lines 30-32, for a player or (who = 0) the dealer, once
\* the bets are placed
ReceiveCard ==
    \E who \in 0 .. Len(players), card \in DealtCards :
        /\ game_op.kind # "determine_winners"
        /\ \A i \in 1 .. Len(players) : players[i].bet > 0
        /\ IF who = 0
           THEN /\ Len(dealer.hand) < MaxHand
                /\ dealer' = [dealer EXCEPT !.hand = Append(@, card)]
                /\ UNCHANGED players
           ELSE /\ Len(players[who].hand) < MaxHand
                /\ players' = [players EXCEPT ![who].hand = Append(@, card)]
                /\ UNCHANGED dealer
        /\ game_op' = [NoGameCall EXCEPT !.kind = "receive_card"]
        /\ UNCHANGED <<hashtable, lists, plains, deck>>

DetermineWinnersCall ==
    LET r == DetermineWinners(players, dealer) IN
    /\ game_op.kind = "receive_card"
    /\ players' = r[1]
    /\ game_op' = [game_op EXCEPT !.kind = "determine_winners", !.before = players,
                                  !.winners = r[2]]
    /\ UNCHANGED <<hashtable, lists, plains, dealer, deck>>

NextTable == TableBet \/ ReceiveCard \/ DetermineWinnersCall

SpecTable == InitTable /\ [][NextTable]_vars

\* ---- a Deck that is dealt from, card after card (test_cards.py)
\* the shuffles tried: the deck is cut at 0 .. MaxCut cards and may be turned over
MaxCut == 2

\* cards.py lines 5-9
Suits == <<"HEARTS", "DIAMONDS", "CLUBS", "SPADES">>

\* cards.py line 40, by position
RANKS == 1 .. 13

\* Deck.reset line 67: [Card(suit, rank) for suit in Suit for rank in RANKS]
FullDeck ==
    [i \in 1 .. Len(Suits) * Cardinality(RANKS) |->
        Card(Suits[((i - 1) \div Cardinality(RANKS)) + 1], ((i - 1) % Cardinality(RANKS)) + 1)]

Shuffles == (0 .. MaxCut) \X BOOLEAN

\* Deck.shuffle lines 70-72: random.shuffle leaves some permutation of the cards
Shuffle(cards, s) ==
    LET n == Len(cards)
        cut == [i \in 1 .. n |-> cards[((i - 1 + s[1]) % n) + 1]]
    IN  IF s[2] THEN [i \in 1 .. n |-> cut[n + 1 - i]] ELSE cut

\* Deck.reset lines 65-68
DeckReset(s) == Shuffle(FullDeck, s)

\* self.cards.pop() line 78: the last card, IndexError on an empty list
CardsPop(cards) ==
    IF cards = <<>>
    THEN [cards |-> cards, card |-> NoGameCall.card, raised |-> TRUE]
    ELSE [cards |-> SubSeq(cards, 1, Len(cards) - 1), card |-> cards[Len(cards)],
          raised |-> FALSE]

DeckDeal_NoReset(cards, s) == CardsPop(cards)

\* Deck.deal lines 74-78
DeckDeal(cards, s) == CardsPop(IF cards = <<>> THEN DeckReset(s) ELSE cards)

\* Deck.__init__ lines 61-63
InitDeck ==
    /\ TableInit(SeqConfigs) /\ ListsInit /\ plain_res = [kind |-> None, ret |-> 0]
    /\ players = <<>>
    /\ dealer = [hand |-> <<>>]
    /\ \E s \in Shuffles : deck = DeckReset(s)
    /\ game_op = [NoGameCall EXCEPT !.kind = "deck"]

\* one deck.deal(); ret: it returned a card, len: len(deck) before the call
DealCall ==
    \E s \in Shuffles :
        LET r == DeckDeal(deck, s) IN
        /\ deck' = r.cards
        /\ game_op' = [NoGameCall EXCEPT !.kind = "deal", !.ret = ~r.raised,
                                         !.card = r.card, !.len = Len(deck)]
        /\ UNCHANGED <<hashtable, lists, plains, players, dealer>>

NextDeck == DealCall

SpecDeck == InitDeck /\ [][NextDeck]_vars

\* ------------------------------------------------ what the table answers
\* the value __getitem__ finds for k in a table at rest, 0 when k is absent
LookupIn(bs, cap, k) ==
    LET chain == bs[Hash(k, cap) + 1]
        i == ListFind(chain, k)
    IN  IF i = 0 THEN 0 ELSE chain[i][2]

Lookup(k) == LookupIn(buckets, capacity, k)

Occurrences(l, k) == Cardinality({i \in 1 .. Len(l) : l[i][1] = k})

Idle0 == thr["t0"].pc = "idle"

HoldsBucketLock(t) == \E l \in DOMAIN lock_state : lock_state[l][1] = t

\* C1: no reachable state is a deadlock: there is never a set of threads each of
\* which waits for a lock that a thread of the set holds or that was never released
C1_NoDeadlock == ~Deadlocked

\* C2: once the workers that insert disjoint keys have all returned, the length is
\* the number of distinct keys inserted and every inserted key maps to its value
C2_NoDataLoss ==
    Quiescent =>
        /\ size = Len(ref)
        /\ \A i \in 1 .. Len(ref) : Lookup(ref[i][1]) = ref[i][2]

\* C3: single-threaded, once the table has been resized, every time the thread is
\* between operations the length equals the number of keys that should be there,
\* every such key is retrievable with its value and occurs exactly once in iteration
C3_ResizeKeepsEntries ==
    (Idle0 /\ bucket_locks.gen > 0) =>
        /\ size = Len(ref)
        /\ Len(keys_list) = Len(ref)
        /\ \A i \in 1 .. Len(ref) :
              /\ Lookup(ref[i][1]) = ref[i][2]
              /\ Occurrences(keys_list, ref[i][1]) = 1

C3_Witness ==
    /\ Idle0 /\ thr["t0"].op = "set"
    /\ capacity = 2 * thr["t0"].snap.capacity
    /\ bucket_locks.gen >= 2
    /\ size = 3

\* C4: single-threaded, a get (or table[k]) that immediately follows set(k, v)
\* returns v
C4_SetThenGet ==
    (Idle0 /\ thr["t0"].op \in {"get", "getitem"} /\ thr["t0"].pv # 0) =>
        (thr["t0"].res = "value" /\ thr["t0"].rv = thr["t0"].pv)

C4_Witness ==
    /\ Idle0 /\ thr["t0"].op = "getitem" /\ thr["t0"].pv # 0 /\ thr["t0"].pgrew
    /\ thr["t0"].rv = thr["t0"].pv /\ size > 1

\* C5: single-threaded, for a key that was never inserted, or was deleted (or cleared)
\* since its last insert, get(k, default) returns the default and "k in table" is False
C5_AbsentKey ==
    (Idle0 /\ ~RefHas(ref, thr["t0"].key)) =>
        /\ thr["t0"].op = "get" => thr["t0"].res = "default"
        /\ thr["t0"].op = "in" => thr["t0"].rv = FALSE

C5_Witness ==
    /\ Idle0 /\ thr["t0"].op = "in" /\ thr["t0"].rv = FALSE
    /\ size = 2 /\ bucket_locks.gen > 0
    /\ buckets[Hash(thr["t0"].key, capacity) + 1] # EmptyList

\* C6: single-threaded, del of a present key succeeds, leaves the key absent, the
\* length one less and every other key with its value; del of an absent key raises
\* KeyError and leaves length, bucket chains and key list unchanged
C6_Delete ==
    LET rec == thr["t0"]
        was == LookupIn(rec.snap.buckets, rec.snap.capacity, rec.key)
    IN  (Idle0 /\ rec.op = "del") =>
           /\ was # 0 =>
                 /\ rec.res = "ok"
                 /\ Lookup(rec.key) = 0
                 /\ size = rec.snap.size - 1
                 /\ \A k \in Keys \ {rec.key} :
                       Lookup(k) = LookupIn(rec.snap.buckets, rec.snap.capacity, k)
           /\ was = 0 =>
                 /\ rec.res = "KeyError"
                 /\ size = rec.snap.size
                 /\ buckets = rec.snap.buckets
                 /\ keys_list = rec.snap.keys_list

C6_Witness ==
    /\ Idle0 /\ thr["t0"].op = "del" /\ thr["t0"].res = "ok"
    /\ size = 2 /\ bucket_locks.gen > 0

C6_WitnessAbsent ==
    /\ Idle0 /\ thr["t0"].op = "del" /\ thr["t0"].res = "KeyError" /\ size = 2

\* C7: two threads delete the same key, present once: exactly one delete succeeds,
\* the other raises KeyError, the key is absent afterwards and the length is one less
C7_DoubleDelete ==
    LET a == thr["t1"]
        b == thr["t2"]
    IN  (phase = "run" /\ a.pc = "idle" /\ b.pc = "idle" /\ a.n = 1 /\ b.n = 1
           /\ a.key = b.key) =>
           /\ {a.res, b.res} = {"ok", "KeyError"}
           /\ Lookup(a.key) = 0
           /\ size = thr["t0"].snap.size - 1

C7_Witness ==
    /\ phase = "run" /\ thr["t1"].pc = "idle" /\ thr["t2"].pc = "idle"
    /\ thr["t1"].n = 1 /\ thr["t2"].n = 1 /\ thr["t1"].key = thr["t2"].key
    /\ thr["t2"].res = "ok" /\ thr["t1"].res = "KeyError"
    /\ thr["t0"].snap.size = 2

\* C8: whenever no thread holds the table-wide lock, the key list has as many nodes
\* as the entry counter says
C8_KeysLenEqualsSize == (global_lock[1] = None) => Len(keys_list) = size

\* one worker's delete has returned while the other, whose insert made the table
\* too full, is about to enter _resize
C8_Witness ==
    /\ phase = "run" /\ global_lock[1] = None
    /\ \E t \in Workers : thr[t].pc = "idle" /\ thr[t].op = "del" /\ thr[t].res = "ok"
    /\ \E t \in Workers : thr[t].pc = "rs_glock"
    /\ size = 0 /\ keys_list = EmptyList

\* C9: a thread that requests the table-wide lock holds no bucket lock
C9_GlobalBeforeBucket ==
    \A t \in Threads :
        (thr[t].pc \in {"glock", "rs_glock", "clr_glock", "len", "keys"} /\ global_lock[1] # t)
            => ~HoldsBucketLock(t)

\* C10: while a writer inserts new keys, every read of a key inserted before the
\* workers started finds it with its value, no operation raises, and the initial
\* data is intact once all threads have returned
C10_ReadersSeeInitialData ==
    phase = "run" =>
        /\ \A t \in Workers : thr[t].res \notin {"KeyError", "IndexError"}
        /\ (thr["t2"].pc = "idle" /\ thr["t2"].op = "getitem") =>
               (thr["t2"].res = "value" /\ thr["t2"].rv = 1)
        /\ (thr["t2"].pc = "idle" /\ thr["t2"].op = "in") => thr["t2"].rv = TRUE
        /\ Quiescent => \A k \in InitialKeys : Lookup(k) = 1

C12_Construction ==
    [][phase = "new" =>
          IF capacity > 0 /\ load_factor[1] > 0 /\ load_factor[1] <= load_factor[2]
          THEN /\ phase' = "setup"
               /\ capacity' = capacity /\ load_factor' = load_factor
               /\ Len(buckets') = capacity
               /\ \A i \in 1 .. Len(buckets') : buckets'[i] = <<>>
               /\ bucket_locks'.len = capacity
               /\ lock_state' = <<>> /\ global_lock' = <<None, 0>>
               /\ size' = 0 /\ keys_list' = <<>>
          ELSE /\ phase' = "failed"
               /\ buckets' = <<>> /\ bucket_locks'.len = 0]_vars

C12_Witness ==
    /\ phase = "failed" /\ capacity > 0 /\ load_factor[1] > load_factor[2]

\* no lock of the current lock array and no table-wide lock is held
CurrentLocksFree ==
    /\ global_lock = <<None, 0>>
    /\ \A l \in DOMAIN lock_state : l[1] # bucket_locks.gen

\* C13: single-threaded, table[k] for a key that is not in the table raises KeyError
\* and leaves chains, key list, length, capacity and locks as they were; get(k, default)
\* returns a value or the default, never KeyError
C13_KeyErrorOnlyIndexed ==
    LET rec == thr["t0"] IN
    Idle0 =>
       /\ (rec.op = "getitem" /\ ~RefHas(ref, rec.key)) =>
              /\ rec.res = "KeyError"
              /\ buckets = rec.snap.buckets /\ keys_list = rec.snap.keys_list
              /\ size = rec.snap.size /\ capacity = rec.snap.capacity
              /\ bucket_locks = rec.snap.bucket_locks
              /\ CurrentLocksFree
       /\ rec.op = "get" => rec.res \in {"value", "default"}

C13_Witness ==
    /\ Idle0 /\ thr["t0"].op = "getitem" /\ thr["t0"].res = "KeyError"
    /\ size >= 1
    /\ buckets[Hash(thr["t0"].key, capacity) + 1] # EmptyList

\* C14: single-threaded, when clear() has returned the length is 0, every chain and
\* the key list are empty (every key absent, keys/values/items empty), the capacity
\* is what it was, and the table-wide lock and every lock of the table are free; a
\* key set into an empty table is then its only entry
C14_Clear ==
    LET rec == thr["t0"] IN
    /\ (Idle0 /\ rec.op = "clear") =>
           /\ size = 0
           /\ keys_list = <<>> /\ ListKeys(keys_list) = <<>> /\ ListValues(keys_list) = <<>>
           /\ \A k \in Keys : Lookup(k) = 0
           /\ \A i \in 1 .. Len(buckets) : buckets[i] = <<>>
           /\ Len(buckets) = capacity /\ capacity = rec.snap.capacity
           /\ bucket_locks = rec.snap.bucket_locks
           /\ CurrentLocksFree
    /\ (Idle0 /\ rec.op = "set" /\ rec.snap.size = 0) =>
           /\ size = 1 /\ keys_list = << <<rec.key, rec.val>> >>
           /\ Lookup(rec.key) = rec.val
           /\ \A k \in Keys \ {rec.key} : Lookup(k) = 0

C14_Witness ==
    /\ Idle0 /\ thr["t0"].op = "clear" /\ thr["t0"].res = "ok"
    /\ thr["t0"].snap.size >= 2 /\ capacity >= 2 /\ size = 0

\* C15: single-threaded, the key list is at every rest the sequence of live pairs in the
\* order of their latest insertion (an update keeps the place, a delete and re-insert
\* goes to the end), and keys(), values(), items() and reversed(table) return its keys,
\* values, pairs and reversed keys
C15_InsertionOrder ==
    LET rec == thr["t0"]
        n == Len(ref)
    IN
    Idle0 =>
       /\ keys_list = ref
       /\ rec.op = "keys" => rec.rv = [i \in 1 .. n |-> ref[i][1]]
       /\ rec.op = "values" => rec.rv = [i \in 1 .. n |-> ref[i][2]]
       /\ rec.op = "items" => rec.rv = ref
       /\ rec.op = "reversed" => rec.rv = [i \in 1 .. n |-> ref[n + 1 - i][1]]

\* keys 0, 2, 1 were inserted in that order, 0 was deleted and inserted again
C15_Witness ==
    /\ Idle0 /\ thr["t0"].op = "reversed"
    /\ thr["t0"].rv = <<KeyPool[1], KeyPool[3], KeyPool[2]>>
    /\ bucket_locks.gen > 0

\* C16: single-threaded, an insert that made the table grow (once or nested) leaves the
\* key sequence it found followed by the inserted key, and keys() returns that sequence
C16_ResizeKeepsOrder ==
    LET rec == thr["t0"] IN
    Idle0 =>
       /\ (rec.op = "set" /\ capacity > thr["t0"].snap.capacity) =>
              /\ rec.res = "ok"
              /\ ListKeys(keys_list) = Append(ListKeys(thr["t0"].snap.keys_list), rec.key)
              /\ ListValues(keys_list) = Append(ListValues(thr["t0"].snap.keys_list), rec.val)
       /\ rec.op = "keys" => rec.rv = ListKeys(keys_list) /\ keys_list = thr["t0"].snap.keys_list

\* the third key arrives and the table doubles with two keys to carry over
C16_Witness ==
    /\ Idle0 /\ thr["t0"].op = "set"
    /\ capacity > thr["t0"].snap.capacity
    /\ Len(thr["t0"].snap.keys_list) >= 2
    /\ Len(keys_list) = Len(thr["t0"].snap.keys_list) + 1

\* C17: while t1 inserts, a traversal by t2 holds the table-wide lock from its first
\* node to its end, the key list does not change in between, the traversal ends
\* without an exception and what it returns is the keys (values, pairs) of the key
\* list as it is at that moment
C17_SnapshotIteration ==
    [][LET r == thr["t2"]
           r2 == thr'["t2"]
       IN  /\ r.pc = "it_next" =>
                 /\ global_lock[1] = "t2"
                 /\ keys_list' = keys_list
                 /\ r.a <= Len(keys_list)
           /\ (r.pc \in {"keys", "iter", "it_next"} /\ r2.pc = "idle") =>
                 /\ r.pc = "it_next"
                 /\ r2.res = r.op
                 /\ r2.rv = CASE r.op = "keys" -> ListKeys(keys_list)
                               [] r.op = "values" -> ListValues(keys_list)
                               [] OTHER -> keys_list
                 /\ global_lock' = <<None, 0>>
      ]_vars

\* t2 is between two nodes while t1 has put a new key into its chain and waits for
\* the table-wide lock to append it to the key list
C17_Witness ==
    /\ thr["t2"].pc = "it_next" /\ thr["t2"].a >= 1 /\ thr["t2"].a < Len(keys_list)
    /\ thr["t1"].pc = "glock" /\ ~thr["t1"].existing
    /\ Len(thr["t2"].rv) = thr["t2"].a

\* C18: in the mixed workload no operation of a worker ends with an exception
C18_NoExceptionInMixedWorkload ==
    \A t \in Workers : thr[t].res \notin {"KeyError", "IndexError"}

\* C19: workers that delete present keys of disjoint ranges never get an exception, and
\* whenever all of them are back the table holds exactly the populated pairs that
\* nobody deleted, in their order, and its length is the populated length minus the
\* number of deletes
C19_DisjointDeletes ==
    LET init == thr["t0"].snap.keys_list
        done == thr["t1"].n + thr["t2"].n
    IN
    /\ \A t \in Workers : thr[t].res \in {None, "ok"}
    /\ Quiescent =>
          /\ size = Len(init) - done
          /\ Len(keys_list) = size
          /\ \A i \in 1 .. Len(keys_list) : \E j \in 1 .. Len(init) : init[j] = keys_list[i]
          /\ \A t \in Workers : thr[t].n >= 1 => Lookup(thr[t].key) = 0
          /\ \A k \in Keys :
                IF \E i \in 1 .. Len(keys_list) : keys_list[i][1] = k
                THEN /\ Lookup(k) = 1
                     /\ Occurrences(keys_list, k) = 1
                     /\ \A b \in 1 .. Len(buckets) :
                           Occurrences(buckets[b], k) = IF b = Hash(k, capacity) + 1 THEN 1 ELSE 0
                ELSE \A b \in 1 .. Len(buckets) : Occurrences(buckets[b], k) = 0
          /\ keys_list = ref
          /\ CurrentLocksFree

\* three keys were populated, each worker has deleted one of its own, one key is left
C19_Witness ==
    /\ Quiescent /\ thr["t1"].n = 1 /\ thr["t2"].n = 1
    /\ thr["t1"].res = "ok" /\ thr["t2"].res = "ok"
    /\ Len(thr["t0"].snap.keys_list) = 3 /\ size = 1

\* a thread is inside the find-then-modify section of a set or delete: it has
\* found (or missed) the key in the chain under its bucket lock and has not yet
\* published the change under the table-wide lock
InSection(t) == thr[t].pc = "glock"

\* C20: no two threads are at the same time inside the find-then-modify section of a
\* set or delete of the same key
C20_SameKeySerialized ==
    \A t \in Threads, u \in Threads :
        (t # u /\ InSection(t) /\ InSection(u)) => thr[t].k # thr[u].k

\* C21: a thread that is not inside an operation (so every _resize it ran has
\* returned) owns no bucket lock
C21_ResizeReleasesOldLocks ==
    \A t \in Threads : thr[t].pc = "idle" => ~HoldsBucketLock(t)

\* thread t is inside a _resize that has acquired the bucket locks (lines 131-155),
\* the nested sets of its rehash loop included
Resizing(t) ==
    \/ Len(thr[t].stack) >= 2
    \/ Len(thr[t].stack) = 1 /\ thr[t].pc \notin {"rs_glock", "rs_acq"}

\* C22: while a thread is inside _resize with the bucket locks acquired, no other
\* thread gets into a bucket's critical section (takes the bucket lock it waits for
\* and runs find / append / remove on a chain)
C22_ResizeExcludesBucketOps ==
    [][\A t \in Threads, u \in Threads :
          (t # u /\ Resizing(t) /\ thr[u].pc = "acq") => thr'[u].pc = "acq"]_vars

\* C23: a thread that gets the table-wide lock in _resize and finds the load no
\* longer above the threshold returns to its caller at once: it takes no bucket lock,
\* keeps no lock, and capacity, chains, lock array, key list and counter stay as they
\* are; a thread that finds the load still above the threshold goes on to the locks
C23_ResizeRecheck ==
    [][\A t \in Threads :
          (thr[t].pc = "rs_glock" /\ thr'[t] # thr[t]) =>
             IF NeedsResize(size, capacity, load_factor)
             THEN thr'[t].pc = "rs_acq" /\ global_lock'[1] = t
             ELSE /\ thr'[t].pc \in {"idle", "rs_loop"}
                  /\ Len(thr'[t].stack) = Len(thr[t].stack) - 1
                  /\ UNCHANGED <<capacity, buckets, bucket_locks, lock_state, global_lock,
                                 size, keys_list, gens>>]_vars

\* both workers saw the same breach and asked for the same new capacity; one has
\* grown the table and returned, the other is about to re-check
C23_Witness ==
    /\ thr["t1"].pc = "rs_glock" /\ Len(thr["t1"].stack) = 1
    /\ Top(thr["t1"]).new_capacity = capacity
    /\ ~NeedsResize(size, capacity, load_factor)
    /\ thr["t2"].pc = "idle" /\ thr["t2"].op = "set" /\ thr["t2"].n >= 1
    /\ global_lock = <<None, 0>>

C25_OnlyInsertResizes ==
    LET rec == thr["t0"]
        present == Occurrences(rec.snap.keys_list, rec.key) >= 1
    IN  /\ rec.stack # <<>> => rec.op = "set" /\ ~present
        /\ (Idle0 /\ (rec.op \in {"del", "get", "getitem", "in", "len", "keys", "clear"}
                        \/ (rec.op = "set" /\ present))) =>
               /\ capacity = rec.snap.capacity
               /\ Len(buckets) = Len(rec.snap.buckets)
               /\ bucket_locks = rec.snap.bucket_locks
               /\ ~rec.fresh

\* C25 amended: the same, except that clear installs a new bucket array, of the
\* same capacity and under the same lock array
C25_OnlyInsertResizesClearRebuilds ==
    LET rec == thr["t0"]
        present == Occurrences(rec.snap.keys_list, rec.key) >= 1
    IN  /\ rec.stack # <<>> => rec.op = "set" /\ ~present
        /\ (Idle0 /\ (rec.op \in {"del", "get", "getitem", "in", "len", "keys", "clear"}
                        \/ (rec.op = "set" /\ present))) =>
               /\ capacity = rec.snap.capacity
               /\ Len(buckets) = Len(rec.snap.buckets)
               /\ bucket_locks = rec.snap.bucket_locks
               /\ rec.fresh <=> rec.op = "clear"

\* a clear of a table that had grown before
C25_Witness ==
    /\ Idle0 /\ thr["t0"].op = "clear" /\ thr["t0"].fresh
    /\ thr["t0"].snap.bucket_locks.gen >= 1
    /\ bucket_locks = thr["t0"].snap.bucket_locks
    /\ capacity = thr["t0"].snap.capacity

\* C26: a set that found its key in the chain never has to wait for the table-wide lock
C26_UpdateNeedsNoGlobalLock ==
    \A t \in Threads :
        (thr[t].pc = "glock" /\ thr[t].op = "set" /\ thr[t].existing) => GCanAcquire(t)

\* C27: single-threaded, a set of a key that is in the table leaves length, capacity,
\* lock array and bucket array as they were, keeps every node of every chain and of
\* the key list at its place, and changes nothing but the value in the key's node
C27_UpdateInPlace ==
    LET rec == thr["t0"]
        s == rec.snap
        upd(node) == IF node[1] = rec.key THEN <<rec.key, rec.val>> ELSE node
    IN  (Idle0 /\ rec.op = "set" /\ Occurrences(s.keys_list, rec.key) >= 1) =>
           /\ rec.res = "ok"
           /\ size = s.size /\ capacity = s.capacity
           /\ bucket_locks = s.bucket_locks /\ ~rec.fresh
           /\ Len(keys_list) = Len(s.keys_list)
           /\ \A i \in 1 .. Len(keys_list) : keys_list[i] = upd(s.keys_list[i])
           /\ Len(buckets) = Len(s.buckets)
           /\ \A b \in 1 .. Len(buckets) :
                 /\ Len(buckets[b]) = Len(s.buckets[b])
                 /\ \A i \in 1 .. Len(buckets[b]) : buckets[b][i] = upd(s.buckets[b][i])
           /\ CurrentLocksFree

\* the updated key is the first of two nodes in its chain and got a new value
C27_Witness ==
    LET rec == thr["t0"] IN
    /\ Idle0 /\ rec.op = "set" /\ rec.res = "ok"
    /\ Occurrences(rec.snap.keys_list, rec.key) >= 1
    /\ \E b \in 1 .. Len(buckets) :
          /\ Len(buckets[b]) >= 2
          /\ buckets[b][1] = <<rec.key, rec.val>>
          /\ rec.snap.buckets[b][1] # buckets[b][1]

\* C28: whenever no operation is in progress, every key is at most once in the key
\* list, a key of the key list is exactly once in the chain at hash(key) mod capacity
\* and in no other chain, a key that is not in the key list is in no chain, and the
\* counter is the number of keys
C28_StructuralConsistency ==
    Quiescent =>
        /\ Len(buckets) = capacity
        /\ size = Len(keys_list)
        /\ \A i \in 1 .. Len(keys_list) : Occurrences(keys_list, keys_list[i][1]) = 1
        /\ \A b \in 1 .. Len(buckets) : \A i \in 1 .. Len(buckets[b]) :
              LET k == buckets[b][i][1] IN
              /\ Occurrences(keys_list, k) = 1
              /\ Occurrences(buckets[b], k) = 1
              /\ b = Hash(k, capacity) + 1
        /\ \A i \in 1 .. Len(keys_list) :
              Occurrences(buckets[Hash(keys_list[i][1], capacity) + 1], keys_list[i][1]) = 1

\* C29: whenever no operation is in progress, what the chains answer for a key is
\* what the key list pairs with it: every pair of the key list is found by a lookup
\* with that value, and a key the lookup finds is in the key list
C29_ViewsAgree ==
    Quiescent =>
        /\ \A i \in 1 .. Len(keys_list) : Lookup(keys_list[i][1]) = keys_list[i][2]
        /\ \A k \in Keys : Lookup(k) # 0 => Occurrences(keys_list, k) >= 1

\* C30: a thread reads the current table (capacity for the hash, the lock array for
\* its bucket lock, the bucket array for its chain) and the counter (the load check)
\* only while it holds the table-wide lock
C30_NoLockFreeAccess ==
    [][\A t \in Threads :
          (thr[t].pc \in {"hash", "lock", "acq", "check"} /\ thr'[t] # thr[t])
              => global_lock[1] = t]_vars

\* C31: routing is against the current table. Whenever an operation reads its lock
\* (lines 165, 194, 213, 236) the index it computed is within the lock array, and
\* whenever it enters "with bucket_lock" and indexes self._buckets (line 168) the
\* index is hash(key) mod the current capacity, the lock belongs to the current
\* lock array and the index is within both arrays, also when a resize ran between
\* the steps of the operation.
C31_RoutingAgainstCurrentTable ==
    \A t \in Threads :
        /\ thr[t].pc = "lock" => thr[t].idx < bucket_locks.len
        /\ (thr[t].pc = "acq" /\ CanAcquire(t, thr[t].lock)) =>
              /\ thr[t].idx = Hash(thr[t].k, capacity)
              /\ thr[t].lock = <<bucket_locks.gen, thr[t].idx>>
              /\ thr[t].idx < bucket_locks.len
              /\ thr[t].idx < Len(buckets)

\* C32: after any sequence of append and of remove of a node that is in the list,
\* walking from head along next and from tail along prev visit the same nodes in
\* opposite order, the node of the most recent append is the tail, _size is the
\* number of nodes, head and tail are None exactly when the list is empty, and
\* find(key) returns the first node from the head with that key, or None.
C32_ListInvariant ==
    LET f == DllForward(dll)
        b == DllBackward(dll)
    IN  /\ Len(f) = Len(b)
        /\ \A i \in 1..Len(f) : f[i] = b[Len(b) + 1 - i]
        /\ \A i, j \in 1..Len(f) : i # j => f[i] # f[j]
        /\ dll.size = Len(f)
        /\ (dll.head = NoNode) = (Len(f) = 0)
        /\ (dll.tail = NoNode) = (Len(f) = 0)
        /\ dll_op.kind = "append" => /\ dll.tail = dll_op.res
                                     /\ dll.nodes[dll.tail].key = dll_op.key
        /\ dll_op.kind = "find" =>
              IF \E i \in 1..Len(f) : dll.nodes[f[i]].key = dll_op.key
              THEN \E i \in 1..Len(f) :
                      /\ dll_op.res = f[i]
                      /\ dll.nodes[f[i]].key = dll_op.key
                      /\ \A j \in 1..(i - 1) : dll.nodes[f[j]].key # dll_op.key
              ELSE dll_op.res = NoNode

\* a find that skips a node with another key after a node was removed from the
\* middle, with the list appended to since
C32_Witness ==
    /\ dll_op.kind = "find"
    /\ dll_op.res # NoNode /\ dll_op.res # dll.head
    /\ dll.size >= 2 /\ dll.size < Len(dll.nodes)
    /\ dll.tail = Len(dll.nodes)

\* C33: in single-threaded use, after every completed set, delete or clear the
\* table is within its load factor, _size / _capacity <= load_factor, for every
\* configuration; a rehash that overloads the doubled table resizes again.
C33_LoadFactorBound ==
    Idle0 => size * load_factor[2] <= capacity * load_factor[1]

\* a set has returned after a resize nested in the rehash of another, a delete
\* and a clear have returned
C33_WitnessSet ==
    /\ Idle0 /\ thr["t0"].op = "set" /\ thr["t0"].res = "ok"
    /\ capacity >= 4 * thr["t0"].snap.capacity

C33_WitnessDelete ==
    /\ Idle0 /\ thr["t0"].op = "del" /\ thr["t0"].res = "ok" /\ size >= 1

C33_WitnessClear ==
    /\ Idle0 /\ thr["t0"].op = "clear" /\ thr["t0"].snap.size >= 2

C33_Witness == C33_WitnessSet

\* C34: under any interleaving the capacity never decreases and changes only by
\* doubling, so it is always initial_capacity * 2^k: a _resize that passes the
\* re-check publishes twice the capacity that was current when it took the
\* table-wide lock (the new capacity computed before the lock is never stale).
C34_CapacityMonotone ==
    [][capacity' # capacity => capacity' = 2 * capacity]_vars

\* C35: one thread makes the same calls (set, get, delete, contains, len,
\* iteration) on a ThreadSafeHashTable and on a NonThreadSafeHashTable built with
\* the same valid arguments: every call returns the same result or raises KeyError
\* on both, and after every call both have the same capacity, length and key order.
C35_SameAsPlainTable ==
    (Idle0 /\ thr["t0"].op # None) =>
        /\ thr["t0"].res = plain_res.kind
        /\ thr["t0"].rv = plain_res.ret
        /\ capacity = plain.capacity
        /\ size = plain.size
        /\ ListKeys(keys_list) = ListKeys(plain.keys_list)

\* a delete has raised KeyError on both tables after both have grown
C35_Witness ==
    /\ Idle0 /\ thr["t0"].op = "del" /\ thr["t0"].res = "KeyError"
    /\ plain_res.kind = "KeyError"
    /\ plain.capacity > 4 /\ plain.size >= 2
    /\ load_factor = <<1, 4>>

\* C36: every single-threaded call of set returns, for every configuration: the
\* chain of _resize calls nested in the rehash loop is finite, and when the call
\* has returned no bucket lock of the current table (and no table-wide lock) is
\* held.
C36_SetTerminates ==
    /\ (thr["t0"].pc # "idle") ~> (Idle0 /\ thr["t0"].res = "ok")
    /\ [](Idle0 => CurrentLocksFree)

\* a set has returned from a resize nested in another one; the locks of the
\* replaced arrays are still held, those of the current one are free
C36_Witness ==
    /\ Idle0 /\ thr["t0"].op = "set" /\ thr["t0"].res = "ok"
    /\ capacity >= 4 * thr["t0"].snap.capacity
    /\ \E l \in DOMAIN lock_state : lock_state[l][1] = "t0"
    /\ CurrentLocksFree

\* a thread whose iterator is started and not exhausted
Iterating(t) == thr[t].pc = "it_next"

\* C37: an iterator of keys() / values() / items() takes the table-wide lock at
\* its first step, not when it is created, and holds it until it is exhausted;
\* while it is started and not exhausted no other thread gets an insert, a delete
\* or a resize through (the key list, the length and the capacity stay as they
\* are) and no length() returns; the waiting operations complete once the
\* iterator is exhausted.
C37_IteratorHoldsLock ==
    /\ [](\A t \in Threads : thr[t].pc \in {"iter", "keys"} => global_lock[1] # t)
    /\ [](\A t \in Threads : Iterating(t) => global_lock[1] = t)
    /\ [][(\E t \in Threads : Iterating(t)) =>
            /\ keys_list' = keys_list /\ size' = size /\ capacity' = capacity
            /\ \A u \in Threads : thr[u].pc \in {"glock", "rs_glock", "len"} =>
                                      thr'[u].pc = thr[u].pc
         ]_<<keys_list, size, capacity, [u \in Threads |-> thr[u].pc]>>
    /\ (thr["t1"].pc \in {"glock", "rs_glock", "len"} /\ Iterating("t2"))
          ~> (thr["t1"].pc = "idle")

\* the iterator has yielded a node and is not exhausted while an insert waits
\* for the table-wide lock
C37_Witness ==
    /\ Iterating("t2") /\ thr["t2"].a >= 1 /\ thr["t2"].a < Len(keys_list)
    /\ thr["t1"].pc = "glock" /\ thr["t1"].op = "set" /\ ~thr["t1"].existing

C37_WitnessDelete == Iterating("t2") /\ thr["t1"].pc = "glock" /\ thr["t1"].op = "del"

C37_WitnessLen == Iterating("t2") /\ thr["t1"].pc = "len"

C37_WitnessResize == Iterating("t2") /\ thr["t1"].pc = "rs_glock"

\* C38: place_bet(amount) with amount <= chips sets bet to amount, takes exactly
\* amount from chips and returns True; with amount > chips it returns False and
\* leaves chips and bet as they were; after any sequence of calls with positive
\* amounts chips is not negative.
C38_PlaceBet ==
    /\ game_op.kind = "place_bet" =>
          LET b == game_op.before[1]
              p == players[1]
          IN  /\ game_op.amount <= b.chips =>
                    p.bet = game_op.amount /\ p.chips = b.chips - game_op.amount /\ game_op.ret
              /\ game_op.amount > b.chips =>
                    p.bet = b.bet /\ p.chips = b.chips /\ ~game_op.ret
    /\ game_op.positive => players[1].chips >= 0

\* a bet larger than what an earlier bet left is refused
C38_Witness ==
    /\ game_op.kind = "place_bet" /\ game_op.positive /\ ~game_op.ret
    /\ players[1].bet > 0 /\ players[1].chips > 0
    /\ game_op.amount = players[1].chips + 1

C38_WitnessAccepted ==
    /\ game_op.kind = "place_bet" /\ game_op.positive /\ game_op.ret
    /\ players[1].chips = 0 /\ players[1].bet = game_op.amount /\ game_op.before[1].bet > 0

\* the highest hand value not above 21 counting each ace as 1 or 11, else the
\* lowest value: what a hand scores
Scores(hand) ==
    LET n == Len(hand)
        low == [i \in 1 .. n |-> IF hand[i].rank = ACE THEN 1
                                 ELSE IF hand[i].rank >= 10 THEN 10 ELSE hand[i].rank + 1]
        total == IF n = 0 THEN 0
                 ELSE LET S[i \in 1 .. n] == low[i] + (IF i = 1 THEN 0 ELSE S[i - 1]) IN S[n]
        aces == Cardinality({i \in 1 .. n : hand[i].rank = ACE})
        fits == {k \in 0 .. aces : total + 10 * k <= 21}
    IN  IF fits = {} THEN total
        ELSE total + 10 * (CHOOSE k \in fits : \A m \in fits : m <= k)

\* C39: determine_winners settles the bet of every active player exactly once: a
\* busted player gets nothing and is no winner, also when the dealer is busted;
\* a player who is not busted gets twice the bet and is a winner when the dealer
\* is busted or scores less, gets the bet back and is no winner on equal scores,
\* and gets nothing on a lower score.
C39_DetermineWinners ==
    game_op.kind = "determine_winners" =>
        LET d == Scores(dealer.hand)
            won == {game_op.winners[j] : j \in 1 .. Len(game_op.winners)}
        IN  /\ Len(game_op.winners) = Cardinality(won)
            /\ \A i \in 1 .. Len(players) :
                  LET b == game_op.before[i]
                      sc == Scores(b.hand)
                      paid == players[i].chips - b.chips
                  IN  /\ players[i].bet = b.bet /\ players[i].hand = b.hand
                      /\ sc > 21 => paid = 0 /\ i \notin won
                      /\ (sc <= 21 /\ (d > 21 \/ sc > d)) => paid = 2 * b.bet /\ i \in won
                      /\ (sc <= 21 /\ d <= 21 /\ sc = d) => paid = b.bet /\ i \notin won
                      /\ (sc <= 21 /\ d <= 21 /\ sc < d) => paid = 0 /\ i \notin won

\* the dealer and the first player are busted, the second player wins its bet
C39_Witness ==
    /\ game_op.kind = "determine_winners"
    /\ Scores(dealer.hand) > 21 /\ Scores(players[1].hand) > 21
    /\ players[1].bet > 0 /\ players[2].bet > 0
    /\ game_op.winners = <<2>>
    /\ players[2].chips = MaxChips + players[2].bet

C39_WitnessPush ==
    /\ game_op.kind = "determine_winners"
    /\ Scores(dealer.hand) = 21 /\ Scores(players[1].hand) = 21
    /\ Scores(players[2].hand) = 12
    /\ players[1].bet = 1 /\ players[1].chips = MaxChips
    /\ players[2].bet = 1 /\ players[2].chips = MaxChips - 1
    /\ game_op.winners = <<>>

\* C40: Deck.deal never fails: a new deck holds 52 cards, a deal on a deck that
\* is not empty returns a card and leaves one card less, a deal on an empty deck
\* returns a card and leaves 51, and after any deal the deck holds between 0 and
\* 51 cards.
C40_DealNeverFails ==
    /\ game_op.kind = "deck" => Len(deck) = 52
    /\ game_op.kind = "deal" =>
          /\ game_op.ret
          /\ game_op.card \in {Card(Suits[i], r) : i \in 1 .. 4, r \in 1 .. 13}
          /\ game_op.len > 0 => Len(deck) = game_op.len - 1
          /\ game_op.len = 0 => Len(deck) = 51
          /\ 0 <= Len(deck) /\ Len(deck) <= 51

\* a deal from an empty deck has returned a card and left 51
C40_Witness ==
    /\ game_op.kind = "deal" /\ game_op.len = 0
    /\ game_op.ret /\ Len(deck) = 51

\* the last card of a deck has been dealt
C40_WitnessLast ==
    /\ game_op.kind = "deal" /\ game_op.len = 1
    /\ game_op.ret /\ deck = <<>>

====
